---- MODULE Spec2Model ----
(***************************************************************************)
(* Model of the list-query engine of slims-api (src/resources/mod.rs) and  *)
(* of the loan handlers that use it (src/resources/loans.rs).              *)
(*                                                                         *)
(* Text is modelled as a sequence of one-character strings, so that        *)
(* splitting, trimming, case folding and prefix stripping are computed     *)
(* the way the code computes them.  SQL text is a sequence of tokens.      *)
(***************************************************************************)
EXTENDS Integers, Sequences, FiniteSets, TLC

VARIABLES
    db,             \* the database: the loan, member and item tables
    writes,         \* number of INSERT and UPDATE statements executed so far
    tasks,          \* the list_loans request each task slot is serving
    writer,         \* the create_loan or return_loan request being served
    include_raw,    \* parser harness: the include string as first received
    include_var,    \* parser harness: a variant of include_raw
    sort_raw,       \* parser harness: the raw sort string
    sorts_out,      \* parser harness: Some(parse_sort_string(sort_raw)) once parsed
    call            \* call harness: the last call made, its arguments and its result

vars == <<db, writes, tasks, writer, include_raw, include_var, sort_raw, sorts_out, call>>
harness == <<include_raw, include_var, sort_raw, sorts_out, call>>
server == <<db, writes, tasks, writer>>

(***************************************************************************)
(* Bounds of the model.                                                    *)
(***************************************************************************)
MaxRawLen == 3      \* longest raw string enumerated by the parser harness
MaxVariantLen == 5  \* longest variant of an include string
MaxWrites == 1      \* INSERT and UPDATE statements executed in one behaviour

(***************************************************************************)
(* Option<T>                                                               *)
(***************************************************************************)
None == [is_some |-> FALSE]
Some(x) == [is_some |-> TRUE, value |-> x]

(***************************************************************************)
(* Text: str::trim, str::split, str::to_lowercase, str::strip_prefix       *)
(***************************************************************************)
UpperChars == <<"A","B","C","D","E","F","G","H","I","J","K","L","M",
                "N","O","P","Q","R","S","T","U","V","W","X","Y","Z">>
LowerChars == <<"a","b","c","d","e","f","g","h","i","j","k","l","m",
                "n","o","p","q","r","s","t","u","v","w","x","y","z">>

IsWhitespace(c) == c \in {" ", "\t"}

LowerChar(c) ==
    IF \E i \in 1..Len(UpperChars) : UpperChars[i] = c
    THEN LowerChars[CHOOSE i \in 1..Len(UpperChars) : UpperChars[i] = c]
    ELSE c

UpperChar(c) ==
    IF \E i \in 1..Len(LowerChars) : LowerChars[i] = c
    THEN UpperChars[CHOOSE i \in 1..Len(LowerChars) : LowerChars[i] = c]
    ELSE c

ToLowercase(s) == [i \in 1..Len(s) |-> LowerChar(s[i])]

RECURSIVE TrimStart(_)
TrimStart(s) ==
    IF s # <<>> /\ IsWhitespace(Head(s)) THEN TrimStart(Tail(s)) ELSE s

RECURSIVE TrimEnd(_)
TrimEnd(s) ==
    IF s # <<>> /\ IsWhitespace(s[Len(s)])
    THEN TrimEnd(SubSeq(s, 1, Len(s) - 1))
    ELSE s

Trim(s) == TrimEnd(TrimStart(s))

RECURSIVE SplitAcc(_, _, _)
SplitAcc(s, sep, cur) ==
    IF s = <<>> THEN <<cur>>
    ELSE IF Head(s) = sep
         THEN <<cur>> \o SplitAcc(Tail(s), sep, <<>>)
         ELSE SplitAcc(Tail(s), sep, Append(cur, Head(s)))

\* str::split(sep): the segments between separators, empty ones included
Split(s, sep) == SplitAcc(s, sep, <<>>)

\* str::strip_prefix(p)
StripPrefix(s, p) ==
    IF Len(s) >= Len(p) /\ SubSeq(s, 1, Len(p)) = p
    THEN Some(SubSeq(s, Len(p) + 1, Len(s)))
    ELSE None

\* str::strip_suffix(p)
StripSuffix(s, p) ==
    IF Len(s) >= Len(p) /\ SubSeq(s, Len(s) - Len(p) + 1, Len(s)) = p
    THEN Some(SubSeq(s, 1, Len(s) - Len(p)))
    ELSE None

Range(s) == {s[i] : i \in 1..Len(s)}

(***************************************************************************)
(* parse_include, parse_sort_string                                        *)
(***************************************************************************)
NonEmptyTrimmed(part) == Trim(part) # <<>>

ParseIncludeNoLowercase(raw) ==
    IF raw.is_some
    THEN LET parts == SelectSeq(Split(raw.value, ","), NonEmptyTrimmed)
         IN  {Trim(parts[i]) : i \in 1..Len(parts)}
    ELSE {}

IncludeName(part) == ToLowercase(Trim(part))

parse_include(raw) ==
    IF raw.is_some
    THEN LET parts == SelectSeq(Split(raw.value, ","), NonEmptyTrimmed)
         IN  {IncludeName(parts[i]) : i \in 1..Len(parts)}
    ELSE {}

SortOrder(field, ascending) == [field |-> field, ascending |-> ascending]

SortOrderOfPart(part) ==
    LET trimmed == Trim(part)
        minus == StripPrefix(trimmed, <<"-">>)
        plus == StripPrefix(trimmed, <<"+">>)
    IN  IF minus.is_some THEN SortOrder(minus.value, FALSE)
        ELSE IF plus.is_some THEN SortOrder(plus.value, TRUE)
        ELSE SortOrder(trimmed, TRUE)

SortOrderOfPartPlusKept(part) ==
    LET trimmed == Trim(part)
        minus == StripPrefix(trimmed, <<"-">>)
    IN  IF minus.is_some THEN SortOrder(minus.value, FALSE)
        ELSE SortOrder(trimmed, TRUE)

ParseSortStringPlusKept(raw) ==
    LET parts == SelectSeq(Split(raw, ","), NonEmptyTrimmed)
    IN  [i \in 1..Len(parts) |-> SortOrderOfPartPlusKept(parts[i])]

parse_sort_string(raw) ==
    LET parts == SelectSeq(Split(raw, ","), NonEmptyTrimmed)
    IN  [i \in 1..Len(parts) |-> SortOrderOfPart(parts[i])]

(***************************************************************************)
(* Result<T, AppError> and the AppError kinds used by the query engine     *)
(***************************************************************************)
Ok(v) == [ok |-> TRUE, value |-> v]
Err(e) == [ok |-> FALSE, error |-> e]

BadRequest(message) == [kind |-> "BadRequest", message |-> message]
Forbidden(message) == [kind |-> "Forbidden", message |-> message]
NotFound == [kind |-> "NotFound", message |-> <<>>]
Unauthorized(message) == [kind |-> "Unauthorized", message |-> message]
Internal(message) == [kind |-> "Internal", message |-> message]
Jwt(message) == [kind |-> "Jwt", message |-> message]

\* AppError::Database(sqlx::Error): the message is the driver's text
Database(err) == [kind |-> "Database", message |-> err]
RowNotFound == <<"no rows returned by a query that expected to return at least one row">>
PoolTimedOut == <<"pool timed out while waiting for an open connection">>

(***************************************************************************)
(* Pagination                                                              *)
(***************************************************************************)
DEFAULT_PAGE == 1
DEFAULT_PER_PAGE == 20
MAX_PER_PAGE == 100

\* u32 arithmetic is carried out on 16-bit limbs: 2^32 is Limb * Limb
Limb == 65536

UnwrapOr(opt, default) == IF opt.is_some THEN opt.value ELSE default

MaxOf(a, b) == IF a >= b THEN a ELSE b
MinOf(a, b) == IF a <= b THEN a ELSE b
Clamp(x, lo, hi) == MaxOf(lo, MinOf(x, hi))

\* Pagination::resolved
resolved(pagination) ==
    << MaxOf(UnwrapOr(pagination.page_number, DEFAULT_PAGE), 1),
       Clamp(UnwrapOr(pagination.page_size, DEFAULT_PER_PAGE), 1, MAX_PER_PAGE) >>

\* a * b on u32, for b < Limb: whether the exact product leaves the u32
\* range, and the product modulo 2^32
MulU32(a, b) ==
    LET lo == (a % Limb) * b
        mid == (a \div Limb) * b + (lo \div Limb)
    IN  [overflow |-> mid >= Limb,
         wrapped |-> (mid % Limb) * Limb + (lo % Limb)]

\* an offset that skips the requested page as well
LimitOffsetFromPage(pagination, checks) ==
    LET page == resolved(pagination)[1]
        per_page == resolved(pagination)[2]
        product == MulU32(page, per_page)
    IN  IF product.overflow /\ checks
        THEN [panic |-> TRUE]
        ELSE [panic |-> FALSE, limit |-> per_page, offset |-> product.wrapped,
              page |-> page, per_page |-> per_page]

\* Pagination::limit_offset; with overflow checks compiled in (checks) an
\* overflowing multiplication panics, without them it wraps
limit_offset(pagination, checks) ==
    LET page == resolved(pagination)[1]
        per_page == resolved(pagination)[2]
        product == MulU32(page - 1, per_page)
    IN  IF product.overflow /\ checks
        THEN [panic |-> TRUE]
        ELSE [panic |-> FALSE, limit |-> per_page, offset |-> product.wrapped,
              page |-> page, per_page |-> per_page]

(***************************************************************************)
(* ListParams::deserialize                                                 *)
(***************************************************************************)
FieldsPrefix == <<"f","i","e","l","d","s","[">>
FilterPrefix == <<"f","i","l","t","e","r","[">>
CloseBracket == <<"]">>

\* the name inside prefix...] , if the key has that shape
BracketName(key, prefix) ==
    LET rest == StripPrefix(key, prefix)
    IN  IF rest.is_some THEN StripSuffix(rest.value, CloseBracket) ELSE None

\* a split that trims the parts and keeps the empty ones
CommaValuesKeepingEmpty(value) ==
    [i \in 1..Len(Split(value, ",")) |-> Trim(Split(value, ",")[i])]

\* value.split(',') with each part trimmed and the empty parts dropped
CommaValues(value) ==
    LET parts == SelectSeq(Split(value, ","), NonEmptyTrimmed)
    IN  [i \in 1..Len(parts) |-> Trim(parts[i])]

\* u32 deserialization of a numeric query value (the model's integers stay
\* below 2^31, so only the sign can put a value outside the u32 range)
IsU32(n) == n >= 0

PaginationDeserializes(raw) ==
    /\ raw.page_number.is_some => IsU32(raw.page_number.value)
    /\ raw.page_size.is_some => IsU32(raw.page_size.value)

deserialize(raw) ==
    IF ~PaginationDeserializes(raw)
    THEN Err([kind |-> "QueryRejection", message |-> <<>>])
    ELSE
      LET fieldKeys == {k \in DOMAIN raw.extras :
                          /\ BracketName(k, FieldsPrefix).is_some
                          /\ CommaValues(raw.extras[k]) # <<>>}
          filterKeys == {k \in DOMAIN raw.extras :
                          /\ ~BracketName(k, FieldsPrefix).is_some
                          /\ BracketName(k, FilterPrefix).is_some
                          /\ CommaValues(raw.extras[k]) # <<>>}
      IN  Ok([pagination |-> [page_number |-> raw.page_number,
                              page_size |-> raw.page_size],
              include |-> raw.include,
              fields |-> [n \in {BracketName(k, FieldsPrefix).value : k \in fieldKeys}
                            |-> Range(CommaValues(raw.extras[FieldsPrefix \o n \o CloseBracket]))],
              filters |-> [n \in {BracketName(k, FilterPrefix).value : k \in filterKeys}
                            |-> CommaValues(raw.extras[FilterPrefix \o n \o CloseBracket])],
              sorts |-> IF raw.sort.is_some THEN parse_sort_string(raw.sort.value)
                        ELSE <<>>])

\* ListParams::includes
includes(params) == parse_include(params.include)

\* ListParams::fieldset
fieldset(params, resource_type) ==
    IF resource_type \in DOMAIN params.fields
    THEN Some(params.fields[resource_type])
    ELSE None

\* slice::join
RECURSIVE Join(_, _)
Join(parts, sep) ==
    IF parts = <<>> THEN <<>>
    ELSE IF Len(parts) = 1 THEN parts[1]
    ELSE parts[1] \o sep \o Join(Tail(parts), sep)

(***************************************************************************)
(* Sort compiler                                                           *)
(***************************************************************************)
SortField(name, column) == [name |-> name, column |-> column]

\* allowed.iter().find(|def| def.name == name)
Find(allowed, name) ==
    IF \E i \in 1..Len(allowed) : allowed[i].name = name
    THEN Some(allowed[CHOOSE i \in 1..Len(allowed) :
                        /\ allowed[i].name = name
                        /\ \A j \in 1..(i - 1) : allowed[j].name # name])
    ELSE None

\* the error messages are the pieces of the format string around the name
\* (the source quotes the name with backticks)
SortNotSupported(field) ==
    BadRequest(<< "sorting by ", field, " is not supported" >>)

\* the loop of sort_clause over the remaining orders
RECURSIVE SortClauses(_, _, _)
SortClauses(orders, allowed, clauses) ==
    IF orders = <<>> THEN Ok(clauses)
    ELSE LET order == Head(orders)
             def == Find(allowed, order.field)
         IN  IF def.is_some
             THEN SortClauses(Tail(orders), allowed,
                      Append(clauses, << def.value.column,
                                         IF order.ascending THEN "ASC" ELSE "DESC" >>))
             ELSE Err(SortNotSupported(order.field))

\* a sort compiler that leaves unknown fields out instead of failing
RECURSIVE SortClausesSkipUnknown(_, _, _)
SortClausesSkipUnknown(orders, allowed, clauses) ==
    IF orders = <<>> THEN Ok(clauses)
    ELSE LET order == Head(orders)
             def == Find(allowed, order.field)
         IN  IF def.is_some
             THEN SortClausesSkipUnknown(Tail(orders), allowed,
                      Append(clauses, << def.value.column,
                                         IF order.ascending THEN "ASC" ELSE "DESC" >>))
             ELSE SortClausesSkipUnknown(Tail(orders), allowed, clauses)

SortClauseSkipUnknown(params, allowed, default) ==
    IF params.sorts = <<>> THEN Ok(default)
    ELSE LET clauses == SortClausesSkipUnknown(params.sorts, allowed, <<>>)
         IN  Ok(Join(clauses.value, <<",">>))

\* a sort compiler that keeps the primary key only
SortClauseFirstKey(params, allowed, default) ==
    IF params.sorts = <<>> THEN Ok(default)
    ELSE LET clauses == SortClauses(<< Head(params.sorts) >>, allowed, <<>>)
         IN  IF clauses.ok THEN Ok(Join(clauses.value, <<",">>)) ELSE clauses

\* ListParams::sort_clause: the ORDER BY body as SQL tokens
sort_clause(params, allowed, default) ==
    IF params.sorts = <<>> THEN Ok(default)
    ELSE LET clauses == SortClauses(params.sorts, allowed, <<>>)
         IN  IF clauses.ok THEN Ok(Join(clauses.value, <<",">>)) ELSE clauses

(***************************************************************************)
(* Filter compiler                                                         *)
(***************************************************************************)
FilterField(name, column, operator, value_type) ==
    [name |-> name, column |-> column, operator |-> operator,
     value_type |-> value_type]

Text(val) == [type |-> "Text", val |-> val]
Integer(val) == [type |-> "Integer", val |-> val]
Boolean(val) == [type |-> "Boolean", val |-> val]

Digits == <<"0","1","2","3","4","5","6","7","8","9">>
IsDigit(c) == \E i \in 1..Len(Digits) : Digits[i] = c
DigitValue(c) == (CHOOSE i \in 1..Len(Digits) : Digits[i] = c) - 1

RECURSIVE DigitsValue(_)
DigitsValue(s) ==
    IF s = <<>> THEN 0
    ELSE DigitsValue(SubSeq(s, 1, Len(s) - 1)) * 10 + DigitValue(s[Len(s)])

\* str::parse::<i64>: an optional sign and at least one digit (the values
\* of the model stay far below 2^63)
ParseI64(s) ==
    LET signed == s # <<>> /\ Head(s) \in {"-", "+"}
        digits == IF signed THEN Tail(s) ELSE s
    IN  IF digits # <<>> /\ \A i \in 1..Len(digits) : IsDigit(digits[i])
        THEN Ok(IF s[1] = "-" THEN 0 - DigitsValue(digits) ELSE DigitsValue(digits))
        ELSE Err("ParseIntError")

MustBeInteger(name) == BadRequest(<< "filter ", name, " must be an integer" >>)
MustBeBoolean(name) == BadRequest(<< "filter ", name, " must be boolean" >>)
FilterNotSupported(name) == BadRequest(<< "filter ", name, " is not supported" >>)
MultipleValues(name) ==
    BadRequest(<< "multiple filter values for ", name, " are not supported" >>)

Str_true == <<"t","r","u","e">>
Str_false == <<"f","a","l","s","e">>

\* a coercion that takes every value other than "true" and "1" for false
ParseValueLenientBoolean(def, raw_value) ==
    IF def.value_type = "Text" THEN Ok(Text(raw_value))
    ELSE IF def.value_type = "Integer"
    THEN (IF ParseI64(raw_value).ok THEN Ok(Integer(ParseI64(raw_value).value))
          ELSE Err(MustBeInteger(def.name)))
    ELSE Ok(Boolean(raw_value \in {Str_true, <<"1">>}))

\* FilterField::parse_value
parse_value(def, raw_value) ==
    IF def.value_type = "Text" THEN Ok(Text(raw_value))
    ELSE IF def.value_type = "Integer"
    THEN (IF ParseI64(raw_value).ok THEN Ok(Integer(ParseI64(raw_value).value))
          ELSE Err(MustBeInteger(def.name)))
    ELSE IF raw_value \in {Str_true, <<"1">>} THEN Ok(Boolean(TRUE))
    ELSE IF raw_value \in {Str_false, <<"0">>} THEN Ok(Boolean(FALSE))
    ELSE Err(MustBeBoolean(def.name))

FilterClause(statement, value) == [statement |-> statement, value |-> value]

\* FilterField::to_clause: the statement as SQL tokens, and the bind value
to_clause(def, raw_value) ==
    IF def.operator = "Equals"
    THEN LET value == parse_value(def, raw_value)
         IN  IF value.ok THEN Ok(<< <<def.column, "=", "?">>, value.value >>)
             ELSE value
    ELSE Ok(<< <<def.column, "LIKE", "?">>, Text(<<"%">> \o raw_value \o <<"%">>) >>)

\* every enumeration of a finite set: the orders in which a HashMap may be
\* iterated
RECURSIVE Orders(_)
Orders(S) ==
    IF S = {} THEN {<<>>}
    ELSE UNION {{<<x>> \o rest : rest \in Orders(S \ {x})} : x \in S}

\* the loop of filter_clauses over the entries still to visit
RECURSIVE FilterClauses(_, _, _, _)
FilterClauses(filters, names, allowed, clauses) ==
    IF names = <<>> THEN Ok(clauses)
    ELSE LET name == Head(names)
             values == filters[name]
             def == Find(allowed, name)
         IN  IF ~def.is_some THEN Err(FilterNotSupported(name))
             ELSE IF Len(values) > 1 THEN Err(MultipleValues(name))
             ELSE LET clause == to_clause(def.value, values[1])
                  IN  IF ~clause.ok THEN clause
                      ELSE FilterClauses(filters, Tail(names), allowed,
                               Append(clauses, FilterClause(clause.value[1], clause.value[2])))

\* a filter compiler that leaves unknown filters out instead of failing
RECURSIVE FilterClausesSkipUnknown(_, _, _, _)
FilterClausesSkipUnknown(filters, names, allowed, clauses) ==
    IF names = <<>> THEN Ok(clauses)
    ELSE LET name == Head(names)
             values == filters[name]
             def == Find(allowed, name)
         IN  IF ~def.is_some
             THEN FilterClausesSkipUnknown(filters, Tail(names), allowed, clauses)
             ELSE IF Len(values) > 1 THEN Err(MultipleValues(name))
             ELSE LET clause == to_clause(def.value, values[1])
                  IN  IF ~clause.ok THEN clause
                      ELSE FilterClausesSkipUnknown(filters, Tail(names), allowed,
                               Append(clauses, FilterClause(clause.value[1], clause.value[2])))

FilterClausesOfSkipUnknown(params, allowed, iteration) ==
    FilterClausesSkipUnknown(params.filters, iteration, allowed, <<>>)

\* a filter compiler that takes the first of several values
RECURSIVE FilterClausesFirstValue(_, _, _, _)
FilterClausesFirstValue(filters, names, allowed, clauses) ==
    IF names = <<>> THEN Ok(clauses)
    ELSE LET name == Head(names)
             values == filters[name]
             def == Find(allowed, name)
         IN  IF ~def.is_some THEN Err(FilterNotSupported(name))
             ELSE LET clause == to_clause(def.value, values[1])
                  IN  IF ~clause.ok THEN clause
                      ELSE FilterClausesFirstValue(filters, Tail(names), allowed,
                               Append(clauses, FilterClause(clause.value[1], clause.value[2])))

FilterClausesOfFirstValue(params, allowed, iteration) ==
    FilterClausesFirstValue(params.filters, iteration, allowed, <<>>)

\* ListParams::filter_clauses; iteration is the order in which this call
\* happens to iterate the filters map
filter_clauses(params, allowed, iteration) ==
    FilterClauses(params.filters, iteration, allowed, <<>>)

(***************************************************************************)
(* Binder                                                                  *)
(***************************************************************************)
\* a WHERE text whose conditions are alternatives
WhereClauseOr(filters) ==
    IF filters = <<>> THEN <<>>
    ELSE <<"WHERE">>
           \o Join([i \in 1..Len(filters) |-> filters[i].statement], <<"OR">>)

\* where_clause
where_clause(filters) ==
    IF filters = <<>> THEN <<>>
    ELSE <<"WHERE">>
           \o Join([i \in 1..Len(filters) |-> filters[i].statement], <<"AND">>)

\* sqlx::query_as / sqlx::query_scalar: a statement with no argument bound
Query(sql) == [sql |-> sql, arguments |-> <<>>]

\* Query::bind
Bind(query, value) == [query EXCEPT !.arguments = Append(@, value)]

\* FilterValue::bind_query and FilterValue::bind_scalar
bind_query(value, query) == Bind(query, value)
bind_scalar(value, query) == Bind(query, value)

RECURSIVE BindFiltersReversed(_, _)
BindFiltersReversed(query, filters) ==
    IF filters = <<>> THEN query
    ELSE BindFiltersReversed(bind_scalar(filters[Len(filters)].value, query),
                             SubSeq(filters, 1, Len(filters) - 1))

RECURSIVE bind_filters_to_query(_, _)
bind_filters_to_query(query, filters) ==
    IF filters = <<>> THEN query
    ELSE bind_filters_to_query(bind_query(Head(filters).value, query), Tail(filters))

RECURSIVE bind_filters_to_scalar(_, _)
bind_filters_to_scalar(query, filters) ==
    IF filters = <<>> THEN query
    ELSE bind_filters_to_scalar(bind_scalar(Head(filters).value, query), Tail(filters))

(***************************************************************************)
(* The names of src/resources/loans.rs as text                             *)
(***************************************************************************)
Str_loan_date == <<"l","o","a","n","_","d","a","t","e">>
Str_due_date == <<"d","u","e","_","d","a","t","e">>
Str_return_date == <<"r","e","t","u","r","n","_","d","a","t","e">>
Str_loan_id == <<"l","o","a","n","_","i","d">>
Str_item_code == <<"i","t","e","m","_","c","o","d","e">>
Str_member_id == <<"m","e","m","b","e","r","_","i","d">>
Str_is_return == <<"i","s","_","r","e","t","u","r","n">>
Str_member == <<"m","e","m","b","e","r">>
Str_item == <<"i","t","e","m">>
Str_loans == <<"l","o","a","n","s">>
Str_actual == <<"a","c","t","u","a","l">>
Str_member_name == <<"m","e","m","b","e","r","_","n","a","m","e">>
Str_item_id == <<"i","t","e","m","_","i","d">>

LOAN_SORTS ==
    << SortField(Str_loan_date, "loan.loan_date"),
       SortField(Str_due_date, "loan.due_date"),
       SortField(Str_return_date, "loan.return_date"),
       SortField(Str_loan_id, "loan.loan_id") >>

LOAN_FILTERS ==
    << FilterField(Str_item_code, "loan.item_code", "Equals", "Text"),
       FilterField(Str_member_id, "loan.member_id", "Equals", "Text"),
       FilterField(Str_is_return, "loan.is_return", "Equals", "Boolean") >>

LoanDefaultSort == <<"loan.loan_date", "DESC">>

LoanColumns ==
    <<"loan_id", ",", "item_code", ",", "member_id", ",", "loan_date", ",",
      "due_date", ",", "actual", ",", "return_date", ",", "is_return">>

CountLoansSql(where_sql) == <<"SELECT", "COUNT(*)", "FROM", "loan">> \o where_sql

DataLoansSql(where_sql, sort_sql) ==
    <<"SELECT">> \o LoanColumns \o <<"FROM", "loan">> \o where_sql
        \o <<"ORDER BY">> \o sort_sql \o <<"LIMIT", "?", "OFFSET", "?">>

MemberLookupSql ==
    <<"SELECT", "member_id", ",", "member_name", "FROM", "member",
      "WHERE", "member_id", "=", "?">>

ItemLookupSql ==
    <<"SELECT", "item_id", ",", "item_code", "FROM", "item",
      "WHERE", "item_code", "=", "?">>

LoanByIdSql ==
    <<"SELECT">> \o LoanColumns \o <<"FROM", "loan", "WHERE", "loan_id", "=", "?">>

(***************************************************************************)
(* The database: how MySQL evaluates the statements the handlers send.     *)
(* A database is a record of tables, each a set of rows.                   *)
(***************************************************************************)
Null == [type |-> "Null"]

OfNullableText(opt) == IF opt.is_some THEN Text(opt.value) ELSE Null
OfNullableInteger(opt) == IF opt.is_some THEN Integer(opt.value) ELSE Null

\* the value of a column of a row, as an SQL value
ColumnValue(row, column) ==
    CASE column \in {"loan.loan_id", "loan_id"} -> Integer(row.loan_id)
      [] column \in {"loan.item_code", "item_code"} -> OfNullableText(row.item_code)
      [] column \in {"loan.member_id"} -> OfNullableText(row.member_id)
      [] column \in {"member_id"} ->
            IF "member_name" \in DOMAIN row THEN Text(row.member_id)
            ELSE OfNullableText(row.member_id)
      [] column \in {"loan.loan_date", "loan_date"} -> Integer(row.loan_date)
      [] column \in {"loan.due_date", "due_date"} -> Integer(row.due_date)
      [] column \in {"loan.return_date", "return_date"} -> OfNullableInteger(row.return_date)
      [] column \in {"loan.actual", "actual"} -> OfNullableInteger(row.actual)
      [] column \in {"loan.is_return", "is_return"} -> Integer(row.is_return)
      [] column \in {"item_id"} -> Integer(row.item_id)
      [] column \in {"member_name"} -> Text(row.member_name)

IndexOf(sql, token) ==
    IF \E i \in 1..Len(sql) : sql[i] = token
    THEN CHOOSE i \in 1..Len(sql) : sql[i] = token /\ \A j \in 1..(i - 1) : sql[j] # token
    ELSE 0

\* the i-th '?' of a statement takes the i-th bound argument
ArgIndex(sql, p) == Cardinality({q \in 1..p : sql[q] = "?"})
Placeholders(sql) == {p \in 1..Len(sql) : sql[p] = "?"}

WhereEnd(sql) ==
    IF IndexOf(sql, "ORDER BY") > 0 THEN IndexOf(sql, "ORDER BY") - 1 ELSE Len(sql)

\* the placeholders of the WHERE part
Conditions(sql) ==
    IF IndexOf(sql, "WHERE") = 0 THEN {}
    ELSE {p \in Placeholders(sql) : IndexOf(sql, "WHERE") < p /\ p <= WhereEnd(sql)}

RECURSIVE Contains(_, _)
Contains(s, sub) ==
    \/ Len(s) >= Len(sub) /\ SubSeq(s, 1, Len(sub)) = sub
    \/ s # <<>> /\ Contains(Tail(s), sub)

\* column = ?   A boolean argument arrives as 1 or 0; NULL equals nothing;
\* values of different types are taken as different.
SqlEquals(value, arg) ==
    LET a == IF arg.type = "Boolean" THEN Integer(IF arg.val THEN 1 ELSE 0) ELSE arg
    IN  value.type # "Null" /\ value.type = a.type /\ value.val = a.val

\* column LIKE ?  for the patterns the filter compiler produces: %text%
SqlLike(value, arg) ==
    /\ value.type = "Text"
    /\ arg.type = "Text"
    /\ Len(arg.val) >= 2
    /\ Contains(value.val, SubSeq(arg.val, 2, Len(arg.val) - 1))

ConditionHolds(row, sql, arguments, p) ==
    LET value == ColumnValue(row, sql[p - 2])
        arg == arguments[ArgIndex(sql, p)]
    IN  IF sql[p - 1] = "LIKE" THEN SqlLike(value, arg) ELSE SqlEquals(value, arg)

\* the conditions of the WHERE part are joined by AND
RowMatches(row, sql, arguments) ==
    \A p \in Conditions(sql) : ConditionHolds(row, sql, arguments, p)

TableOf(database, sql) ==
    LET name == sql[IndexOf(sql, "FROM") + 1]
    IN  CASE name = "loan" -> database.loan
          [] name = "member" -> database.member
          [] name = "item" -> database.item

Matching(database, query) ==
    {row \in TableOf(database, query.sql) : RowMatches(row, query.sql, query.arguments)}

\* the sort keys of the ORDER BY part: <<column, direction>> pairs
OrderKeys(sql) ==
    IF IndexOf(sql, "ORDER BY") = 0 THEN <<>>
    ELSE LET last == IF IndexOf(sql, "LIMIT") > 0 THEN IndexOf(sql, "LIMIT") - 1
                     ELSE Len(sql)
         IN  Split(SubSeq(sql, IndexOf(sql, "ORDER BY") + 1, last), ",")

\* NULL sorts before every value in ascending order
Rank(value) == IF value.type = "Null" THEN -1 ELSE value.val

\* r1 has to come before r2 under the sort keys
RECURSIVE Before(_, _, _)
Before(r1, r2, keys) ==
    IF keys = <<>> THEN FALSE
    ELSE LET k1 == Rank(ColumnValue(r1, Head(keys)[1]))
             k2 == Rank(ColumnValue(r2, Head(keys)[1]))
         IN  IF k1 = k2 THEN Before(r1, r2, Tail(keys))
             ELSE IF Head(keys)[2] = "DESC" THEN k1 > k2 ELSE k1 < k2

\* every order of the rows that the sort keys allow
RECURSIVE SortedSeqs(_, _)
SortedSeqs(rows, keys) ==
    IF rows = {} THEN {<<>>}
    ELSE UNION {{<<m>> \o rest : rest \in SortedSeqs(rows \ {m}, keys)} :
                  m \in {r \in rows : \A x \in rows : ~Before(x, r, keys)}}

\* LIMIT limit OFFSET offset
Slice(rows, limit, offset) ==
    SubSeq(rows, offset + 1, MinOf(offset + limit, Len(rows)))

\* fetch_one of a COUNT(*) statement
FetchCount(database, query) == Cardinality(Matching(database, query))

\* fetch_all: the row sequences the server may answer with
FetchAll(database, query) ==
    LET sql == query.sql
        limit == query.arguments[ArgIndex(sql, IndexOf(sql, "LIMIT") + 1)].val
        offset == query.arguments[ArgIndex(sql, IndexOf(sql, "OFFSET") + 1)].val
    IN  {Slice(rows, limit, offset) :
           rows \in SortedSeqs(Matching(database, query), OrderKeys(sql))}

\* fetch_optional: the answers the server may give, a row or none
FetchOptional(database, query) ==
    IF Matching(database, query) = {} THEN {None}
    ELSE {Some(row) : row \in Matching(database, query)}

(***************************************************************************)
(* AuthUser::require_access                                                *)
(***************************************************************************)
Bibliography == 1
Circulation == 2
Membership == 3

ModulePermission(module_id, read, write) ==
    [module_id |-> module_id, read |-> read, write |-> write]

\* claims.access.iter().find(|a| a.module_id == module_id)
FindAccess(access, module_id) ==
    IF \E i \in 1..Len(access) : access[i].module_id = module_id
    THEN Some(access[CHOOSE i \in 1..Len(access) :
                       /\ access[i].module_id = module_id
                       /\ \A j \in 1..(i - 1) : access[j].module_id # module_id])
    ELSE None

\* an access check in which Read is granted by the read flag alone
RequireAccessReadFlagOnly(access, module, permission) ==
    LET can_access == FindAccess(access, module)
        allowed == IF can_access.is_some /\ permission = "Read"
                   THEN can_access.value.read
                   ELSE IF can_access.is_some /\ permission = "Write"
                   THEN can_access.value.write
                   ELSE FALSE
    IN  IF allowed THEN Ok(<<>>)
        ELSE Err(Forbidden(<<"insufficient permissions">>))

require_access(access, module, permission) ==
    LET can_access == FindAccess(access, module)
        allowed == IF can_access.is_some /\ permission = "Read"
                   THEN can_access.value.read \/ can_access.value.write
                   ELSE IF can_access.is_some /\ permission = "Write"
                   THEN can_access.value.write
                   ELSE FALSE
    IN  IF allowed THEN Ok(<<>>)
        ELSE Err(Forbidden(<<"insufficient permissions">>))

(***************************************************************************)
(* JSON:API documents                                                      *)
(***************************************************************************)
\* HashMap::insert
Insert(map, key, value) ==
    [k \in DOMAIN map \cup {key} |-> IF k = key THEN value ELSE map[k]]

\* serde_json::Map::retain
Retain(map, allowed) == [k \in DOMAIN map \cap allowed |-> map[k]]

\* i64::to_string: the decimal digits, after a minus sign below zero
RECURSIVE to_string(_)
to_string(n) ==
    IF n < 0 THEN <<"-">> \o to_string(0 - n)
    ELSE IF n < 10 THEN <<Digits[n + 1]>>
    ELSE to_string(n \div 10) \o <<Digits[(n % 10) + 1]>>

\* a resource object that keeps every attribute whatever was requested
ResourceWithAllFields(resource_type, id, attributes, fields) ==
    [type |-> resource_type, id |-> id, attributes |-> attributes]

\* resource_with_fields
resource_with_fields(resource_type, id, attributes, fields) ==
    [type |-> resource_type,
     id |-> id,
     attributes |-> IF fields.is_some THEN Retain(attributes, fields.value)
                    ELSE attributes]

pagination_meta(page, per_page, total) ==
    [page |-> page, per_page |-> per_page, total |-> total]

collection_document(data, meta) == [data |-> data, meta |-> meta]

\* the serialized form of a LoanResponse: the loan's own columns, and the
\* member and item keys only when a related row is attached
LoanResponse(loan, member, item) ==
    LET own == [k \in {Str_loan_id, Str_item_code, Str_member_id, Str_loan_date,
                       Str_due_date, Str_actual, Str_return_date, Str_is_return} |->
                  CASE k = Str_loan_id -> Some(loan.loan_id)
                    [] k = Str_item_code -> loan.item_code
                    [] k = Str_member_id -> loan.member_id
                    [] k = Str_loan_date -> Some(loan.loan_date)
                    [] k = Str_due_date -> Some(loan.due_date)
                    [] k = Str_actual -> loan.actual
                    [] k = Str_return_date -> loan.return_date
                    [] k = Str_is_return -> Some(loan.is_return)]
        withMember == IF member.is_some THEN Insert(own, Str_member, member) ELSE own
    IN  IF item.is_some THEN Insert(withMember, Str_item, item) ELSE withMember

(***************************************************************************)
(* The tables and the requests of the model                                *)
(***************************************************************************)
ExampleInclude == <<"F","o","o",","," ","b","a","r",",",","," ","B","A","R">>
ExampleSort == <<"-","d","u","e","_","d","a","t","e",",","l","o","a","n","_","i","d">>

I1 == <<"I","1">>
I2 == <<"I","2">>
M1 == <<"M","1">>

Loan(loan_id, item_code, member_id, loan_date, due_date, return_date, is_return) ==
    [loan_id |-> loan_id, item_code |-> item_code, member_id |-> member_id,
     loan_date |-> loan_date, due_date |-> due_date, actual |-> return_date,
     return_date |-> return_date, is_return |-> is_return, is_lent |-> 1]

\* three loans, the third returned and without a member; no item has the
\* code I2
InitialDb ==
    [loan |-> { Loan(1, Some(I1), Some(M1), 1, 8, None, 0),
                Loan(2, Some(I2), Some(M1), 2, 8, None, 0),
                Loan(3, Some(I2), None, 3, 7, Some(3), 1) },
     member |-> { [member_id |-> M1, member_name |-> <<"A","n","n">>] },
     item |-> { [item_id |-> 10, item_code |-> Some(I1)] },
     auto_increment |-> 4]

\* the days on which the write handlers may read the clock
Days == {4}

TaskIds == {1}

ReadOnly == << ModulePermission(Circulation, TRUE, FALSE) >>

AccessInputs ==
    { <<>>,
      ReadOnly,
      << ModulePermission(Circulation, FALSE, TRUE) >>,
      << ModulePermission(Circulation, FALSE, FALSE) >>,
      << ModulePermission(Membership, TRUE, TRUE) >> }

FilterKey(name) == FilterPrefix \o name \o CloseBracket

NoExtras == <<>>

RawParams(page_number, page_size, include, sort, extras) ==
    [page_number |-> page_number, page_size |-> page_size, include |-> include,
     sort |-> sort, extras |-> extras]

PageInputs == {None} \cup {Some(n) : n \in {-1, 0, 1, 2, 42949674}}
SizeInputs == {None} \cup {Some(n) : n \in {-1, 0, 1, 2, 100, 101}}

SortInputs ==
    { None,
      Some(<<"-","l","o","a","n","_","d","a","t","e">>),
      Some(ExampleSort),
      Some(<<"b","o","g","u","s">>),
      Some(<<"l","o","a","n","_","i","d",",","-","b","o","g","u","s">>),
      Some(<<"+","r","e","t","u","r","n","_","d","a","t","e">>),
      Some(<<"d","u","e","_","d","a","t","e">>) }

FilterInputs ==
    { NoExtras,
      FilterKey(Str_is_return) :> <<"0">>,
      FilterKey(Str_is_return) :> Str_true,
      FilterKey(Str_is_return) :> <<"1">>,
      FilterKey(Str_is_return) :> Str_false,
      FilterKey(Str_is_return) :> <<"T","R","U","E">>,
      FilterKey(Str_is_return) :> <<"m","a","y","b","e">>,
      FilterKey(<<"b","o","g","u","s">>) :> <<"x">>,
      (FilterKey(Str_item_code) :> I1) @@ (FilterKey(Str_member_id) :> M1),
      (FilterKey(Str_item_code) :> I2) @@ (FilterKey(Str_member_id) :> M1),
      FilterKey(Str_item_code) :> <<"I","1",",","I","2">>,
      (FilterKey(<<"b","o","g","u","s">>) :> <<"x">>) @@ (FilterKey(Str_is_return) :> <<"m","a","y","b","e">>),
      (FilterKey(Str_is_return) :> <<"0">>) @@ (FilterKey(Str_item_code) :> I2) }

IncludeInputs ==
    { None,
      Some(Str_member),
      Some(<<" ","M","e","m","b","e","r",",","I","T","E","M">>),
      Some(<<"i","t","e","m",",",",","x">>) }

Request(access, query) == [access |-> access, query |-> query]

\* the requests the clients send: every pagination with nothing else, every
\* sort with every filter, every sort on a first and a second page, every
\* include, and every access list
Requests ==
    {Request(ReadOnly, RawParams(n, z, None, None, NoExtras)) :
        n \in PageInputs, z \in SizeInputs}
    \cup
    {Request(ReadOnly, RawParams(None, None, None, srt, extras)) :
        srt \in SortInputs, extras \in FilterInputs}
    \cup
    {Request(ReadOnly, RawParams(pg[1], pg[2], None, srt, extras)) :
        pg \in {<<Some(1), Some(1)>>, <<Some(2), Some(1)>>},
        srt \in SortInputs,
        extras \in {NoExtras, FilterKey(Str_is_return) :> <<"0">>}}
    \cup
    {Request(ReadOnly, RawParams(pg[1], pg[2], inc, None, extras)) :
        pg \in {<<None, None>>, <<Some(2), Some(2)>>},
        inc \in IncludeInputs,
        extras \in {NoExtras, FilterKey(Str_is_return) :> <<"0">>}}
    \cup
    {Request(access, RawParams(None, None, None, None, extras)) :
        access \in AccessInputs,
        extras \in {NoExtras, FilterKey(<<"b","o","g","u","s">>) :> <<"x">>}}

(***************************************************************************)
(* list_loans                                                              *)
(***************************************************************************)
NoError == [kind |-> "None", message |-> <<>>]
NoDocument == collection_document(<<>>, pagination_meta(0, 0, 0))
EmptyMap == <<>>

\* the locals of one list_loans call; outcome is "pending" until the call
\* returns, then "ok", "error" (an AppError), "rejected" (the Query
\* extractor failed) or "panic"; queries is the log of the statements sent
\* and seen the number of writes the table had taken when it was counted
IdleTask ==
    [pc |-> "idle", request |-> Request(<<>>, RawParams(None, None, None, None, NoExtras)),
     includes |-> {}, loan_fields |-> None,
     limit |-> 0, offset |-> 0, page |-> 0, per_page |-> 0,
     sort_clause |-> <<>>, filters |-> <<>>, where_sql |-> <<>>,
     queries |-> <<>>, seen |-> 0, total |-> 0, loans |-> <<>>, index |-> 0,
     member |-> None, member_cache |-> EmptyMap, item_cache |-> EmptyMap,
     data |-> <<>>, outcome |-> "pending", error |-> NoError, document |-> NoDocument,
     failed |-> None]

Failed(request, outcome, error) ==
    [IdleTask EXCEPT !.pc = "done", !.request = request, !.outcome = outcome,
                     !.error = error]

\* Ok(Json(collection_document(data, pagination_meta(page, per_page, total))))
Respond(task) ==
    [task EXCEPT !.pc = "done", !.outcome = "ok",
                 !.document = collection_document(task.data,
                                  pagination_meta(task.page, task.per_page, task.total))]

\* a statement failed in the driver and the ? after its await returns the
\* error from the handler; failed keeps the statement
Broken(task, query) ==
    [task EXCEPT !.pc = "done", !.outcome = "error",
                 !.error = Database(PoolTimedOut), !.failed = Some(query)]

\* list_loans from the extraction of its arguments to the count query
ListLoansCount(request, checks, iteration, database) ==
    LET parsed == deserialize(request.query)
    IN  IF ~parsed.ok THEN Failed(request, "rejected", parsed.error)
        ELSE
        LET params == parsed.value
            access == require_access(request.access, Circulation, "Read")
            paging == limit_offset(params.pagination, checks)
            sort_sql == sort_clause(params, LOAN_SORTS, LoanDefaultSort)
            filters == filter_clauses(params, LOAN_FILTERS, iteration)
        IN  IF ~access.ok THEN Failed(request, "error", access.error)
            ELSE IF paging.panic THEN Failed(request, "panic", NoError)
            ELSE IF ~sort_sql.ok THEN Failed(request, "error", sort_sql.error)
            ELSE IF ~filters.ok THEN Failed(request, "error", filters.error)
            ELSE
            LET where_sql == where_clause(filters.value)
                count == bind_filters_to_scalar(Query(CountLoansSql(where_sql)),
                                                filters.value)
            IN  [IdleTask EXCEPT
                   !.pc = "data", !.request = request,
                   !.includes = includes(params),
                   !.loan_fields = fieldset(params, Str_loans),
                   !.limit = paging.limit, !.offset = paging.offset,
                   !.page = paging.page, !.per_page = paging.per_page,
                   !.sort_clause = sort_sql.value, !.filters = filters.value,
                   !.where_sql = where_sql,
                   !.queries = <<count>>,
                   !.total = FetchCount(database, count)]

\* the orders in which the filters map of a request may be iterated
Iterations(request) ==
    IF deserialize(request.query).ok
    THEN Orders(DOMAIN deserialize(request.query).value.filters)
    ELSE {<<>>}

\* whether overflow checks are compiled in only shows when (page - 1) * per_page
\* leaves the u32 range
Builds(request) ==
    IF /\ deserialize(request.query).ok
       /\ limit_offset(deserialize(request.query).value.pagination, TRUE).panic
    THEN BOOLEAN
    ELSE {FALSE}

\* a client sends one of the requests and list_loans runs up to its count
ListLoansStartOf(t, requests) ==
    /\ tasks[t].pc = "idle"
    /\ \E request \in requests :
         \E checks \in Builds(request), iteration \in Iterations(request) :
           LET counted == [ListLoansCount(request, checks, iteration, db)
                             EXCEPT !.seen = writes]
           IN  \/ tasks' = [tasks EXCEPT ![t] = counted]
               \/ /\ counted.pc = "data"
                  /\ tasks' = [tasks EXCEPT ![t] = Broken(counted, counted.queries[1])]
    /\ UNCHANGED <<db, writes, writer, harness>>

ListLoansStart(t) == ListLoansStartOf(t, Requests)

\* the response has been sent (or the task has died) and the task is over
ListLoansEnd(t) ==
    /\ tasks[t].pc = "done"
    /\ tasks' = [tasks EXCEPT ![t] = IdleTask]
    /\ UNCHANGED <<db, writes, writer, harness>>

\* the data statement with the filter values, then LIMIT and OFFSET, bound
DataQuery(task) ==
    Bind(Bind(bind_filters_to_query(
                  Query(DataLoansSql(task.where_sql, task.sort_clause)), task.filters),
              Integer(task.limit)),
         Integer(task.offset))

\* a handler that compares the page with the total it counted and fails
\* when a page that is not full does not end at the total
EnterLoopCheckingTotal(task) ==
    IF /\ Len(task.loans) < task.limit
       /\ task.offset + Len(task.loans) # task.total
       /\ task.offset < task.total
    THEN [task EXCEPT !.pc = "done", !.outcome = "error",
                      !.error = Internal(<<"total changed">>)]
    ELSE IF task.loans = <<>> THEN Respond(task)
    ELSE [task EXCEPT !.pc = "member", !.index = 1]

\* the loop over the fetched loans starts, or the empty page is returned
EnterLoop(task) ==
    IF task.loans = <<>> THEN Respond(task)
    ELSE [task EXCEPT !.pc = "member", !.index = 1]

ListLoansData(t) ==
    /\ tasks[t].pc = "data"
    /\ \/ \E loans \in FetchAll(db, DataQuery(tasks[t])) :
            tasks' = [tasks EXCEPT ![t] =
                        EnterLoop([@ EXCEPT !.queries = Append(@, DataQuery(tasks[t])),
                                            !.loans = loans])]
       \/ tasks' = [tasks EXCEPT ![t] =
                      Broken([@ EXCEPT !.queries = Append(@, DataQuery(tasks[t]))],
                             DataQuery(tasks[t]))]
    /\ UNCHANGED <<db, writes, writer, harness>>

LoanMember(row) == [member_id |-> row.member_id, member_name |-> row.member_name]
LoanItem(row) == [item_id |-> row.item_id, item_code |-> row.item_code]

\* the member lookup was sent and answered with row
MemberFetched(task, member_id, row) ==
    [task EXCEPT
       !.queries = Append(@, Bind(Query(MemberLookupSql), Text(member_id))),
       !.member_cache = IF row.is_some THEN Insert(@, member_id, LoanMember(row.value))
                        ELSE @,
       !.member = IF row.is_some THEN Some(LoanMember(row.value)) ELSE None]

\* a member lookup whose failure is passed over: the loan goes on without
\* its member
MemberLookupSkipped(task, member_id) ==
    [MemberFetched(task, member_id, None) EXCEPT
       !.pc = "item",
       !.failed = Some(Bind(Query(MemberLookupSql), Text(member_id)))]

\* the member lookup was sent and failed
MemberLookupFailed(task, member_id) ==
    Broken([task EXCEPT
              !.queries = Append(@, Bind(Query(MemberLookupSql), Text(member_id)))],
           Bind(Query(MemberLookupSql), Text(member_id)))

\* the caches of all the requests in flight taken as one
SharedMemberCache ==
    [key \in UNION {DOMAIN tasks[u].member_cache : u \in DOMAIN tasks} |->
       LET holder == CHOOSE u \in DOMAIN tasks : key \in DOMAIN tasks[u].member_cache
       IN  tasks[holder].member_cache[key]]

\* a member part that looks a member up in a cache all the requests share
ListLoansMemberSharedCache(t) ==
    /\ tasks[t].pc = "member"
    /\ LET task == tasks[t]
           loan == task.loans[task.index]
       IN  IF Str_member \in task.includes /\ loan.member_id.is_some
           THEN IF loan.member_id.value \in DOMAIN SharedMemberCache
                THEN tasks' = [tasks EXCEPT ![t] =
                         [task EXCEPT !.pc = "item",
                                      !.member = Some(SharedMemberCache[loan.member_id.value])]]
                ELSE \/ \E row \in FetchOptional(db,
                                   Bind(Query(MemberLookupSql), Text(loan.member_id.value))) :
                          tasks' = [tasks EXCEPT ![t] =
                              [MemberFetched(task, loan.member_id.value, row) EXCEPT !.pc = "item"]]
                     \/ tasks' = [tasks EXCEPT ![t] =
                                    MemberLookupFailed(task, loan.member_id.value)]
           ELSE tasks' = [tasks EXCEPT ![t] = [task EXCEPT !.pc = "item", !.member = None]]
    /\ UNCHANGED <<db, writes, writer, harness>>

\* the member part of the loop body for the loan at index
ListLoansMember(t) ==
    /\ tasks[t].pc = "member"
    /\ LET task == tasks[t]
           loan == task.loans[task.index]
       IN  IF Str_member \in task.includes /\ loan.member_id.is_some
           THEN IF loan.member_id.value \in DOMAIN task.member_cache
                THEN tasks' = [tasks EXCEPT ![t] =
                         [task EXCEPT !.pc = "item",
                                      !.member = Some(task.member_cache[loan.member_id.value])]]
                ELSE \/ \E row \in FetchOptional(db,
                                   Bind(Query(MemberLookupSql), Text(loan.member_id.value))) :
                          tasks' = [tasks EXCEPT ![t] =
                              [MemberFetched(task, loan.member_id.value, row) EXCEPT !.pc = "item"]]
                     \/ tasks' = [tasks EXCEPT ![t] =
                                    MemberLookupFailed(task, loan.member_id.value)]
           ELSE tasks' = [tasks EXCEPT ![t] = [task EXCEPT !.pc = "item", !.member = None]]
    /\ UNCHANGED <<db, writes, writer, harness>>

\* a loop body that takes a requested item that was not found for the
\* driver's RowNotFound
PushedOrRowNotFound(task, item) ==
    LET loan == task.loans[task.index]
        pushed == [task EXCEPT
                     !.data = Append(@, resource_with_fields(Str_loans, to_string(loan.loan_id),
                                            LoanResponse(loan, task.member, item),
                                            task.loan_fields)),
                     !.member = None]
    IN  IF Str_item \in task.includes /\ loan.item_code.is_some /\ ~item.is_some
        THEN [task EXCEPT !.pc = "done", !.outcome = "error",
                          !.error = Database(RowNotFound)]
        ELSE IF task.index = Len(task.loans) THEN Respond(pushed)
        ELSE [pushed EXCEPT !.pc = "member", !.index = task.index + 1]

\* the response of the loan at index is pushed and the loop goes on or ends
Pushed(task, item) ==
    LET loan == task.loans[task.index]
        pushed == [task EXCEPT
                     !.data = Append(@, resource_with_fields(Str_loans, to_string(loan.loan_id),
                                            LoanResponse(loan, task.member, item),
                                            task.loan_fields)),
                     !.member = None]
    IN  IF task.index = Len(task.loans) THEN Respond(pushed)
        ELSE [pushed EXCEPT !.pc = "member", !.index = task.index + 1]

\* the item lookup was sent and answered with row
ItemFetched(task, code, row) ==
    [task EXCEPT
       !.queries = Append(@, Bind(Query(ItemLookupSql), Text(code))),
       !.item_cache = IF row.is_some THEN Insert(@, code, LoanItem(row.value)) ELSE @]

\* the item lookup was sent and failed
ItemLookupFailed(task, code) ==
    Broken([task EXCEPT
              !.queries = Append(@, Bind(Query(ItemLookupSql), Text(code)))],
           Bind(Query(ItemLookupSql), Text(code)))

\* the item part of the loop body for the loan at index, and its end
ListLoansItem(t) ==
    /\ tasks[t].pc = "item"
    /\ LET task == tasks[t]
           loan == task.loans[task.index]
       IN  IF Str_item \in task.includes /\ loan.item_code.is_some
           THEN IF loan.item_code.value \in DOMAIN task.item_cache
                THEN tasks' = [tasks EXCEPT ![t] =
                         Pushed(task, Some(task.item_cache[loan.item_code.value]))]
                ELSE \/ \E row \in FetchOptional(db,
                                   Bind(Query(ItemLookupSql), Text(loan.item_code.value))) :
                          tasks' = [tasks EXCEPT ![t] =
                              Pushed(ItemFetched(task, loan.item_code.value, row),
                                     IF row.is_some THEN Some(LoanItem(row.value)) ELSE None)]
                     \/ tasks' = [tasks EXCEPT ![t] =
                                    ItemLookupFailed(task, loan.item_code.value)]
           ELSE tasks' = [tasks EXCEPT ![t] = Pushed(task, None)]
    /\ UNCHANGED <<db, writes, writer, harness>>

(***************************************************************************)
(* create_loan, return_loan                                                *)
(***************************************************************************)
ReadWrite == << ModulePermission(Circulation, TRUE, TRUE) >>

CreateLoan(item_code, member_id, due_date) ==
    [item_code |-> item_code, member_id |-> member_id, due_date |-> due_date]

Payloads == { CreateLoan(I2, M1, 8) }
LoanIds == {1, 3, 7}

IdleWriter ==
    [pc |-> "idle", handler |-> "none", loan_id |-> 0, outcome |-> "pending",
     error |-> NoError, rec |-> None]

\* INSERT INTO loan (...) VALUES (?, ?, ?, ?, 1, 0)
InsertLoan(database, payload, today) ==
    [database EXCEPT
       !.loan = @ \cup { Loan(database.auto_increment, Some(payload.item_code),
                              Some(payload.member_id), today, payload.due_date, None, 0) },
       !.auto_increment = @ + 1]

\* an UPDATE that reopens a loan that was already returned
UpdateLoanReturnedOrReopened(database, loan_id, today) ==
    [database EXCEPT
       !.loan = { IF row.loan_id = loan_id
                  THEN [row EXCEPT !.return_date = Some(today),
                                   !.is_return = 1 - row.is_return,
                                   !.actual = Some(today)]
                  ELSE row : row \in @ }]

\* UPDATE loan SET return_date = ?, is_return = 1, actual = ? WHERE loan_id = ?
UpdateLoanReturned(database, loan_id, today) ==
    [database EXCEPT
       !.loan = { IF row.loan_id = loan_id
                  THEN [row EXCEPT !.return_date = Some(today), !.is_return = 1,
                                   !.actual = Some(today)]
                  ELSE row : row \in @ }]

\* rows_affected of that UPDATE
RowsAffected(database, loan_id) ==
    Cardinality({row \in database.loan : row.loan_id = loan_id})

\* create_loan up to its INSERT, while fewer than limit writes were made
CreateLoanInsertWithin(limit) ==
    /\ writer.pc \in {"idle", "done"}
    /\ \E access \in {ReadOnly, ReadWrite}, payload \in Payloads, today \in Days :
         IF ~require_access(access, Circulation, "Write").ok
         THEN /\ writer' = [IdleWriter EXCEPT !.pc = "done", !.handler = "create_loan",
                               !.outcome = "error",
                               !.error = require_access(access, Circulation, "Write").error]
              /\ UNCHANGED <<db, writes>>
         ELSE /\ writes < limit
              /\ db' = InsertLoan(db, payload, today)
              /\ writes' = writes + 1
              /\ writer' = [IdleWriter EXCEPT !.pc = "select", !.handler = "create_loan",
                               !.loan_id = db.auto_increment]
    /\ UNCHANGED <<tasks, harness>>

CreateLoanInsert == CreateLoanInsertWithin(MaxWrites)

\* return_loan up to its UPDATE, for one of the loan ids and while fewer
\* than limit writes were made
ReturnLoanUpdateOf(limit, loan_ids) ==
    /\ writer.pc \in {"idle", "done"}
    /\ \E access \in {ReadOnly, ReadWrite}, loan_id \in loan_ids, today \in Days :
         IF ~require_access(access, Circulation, "Write").ok
         THEN /\ writer' = [IdleWriter EXCEPT !.pc = "done", !.handler = "return_loan",
                               !.outcome = "error",
                               !.error = require_access(access, Circulation, "Write").error]
              /\ UNCHANGED <<db, writes>>
         ELSE /\ writes < limit
              /\ db' = UpdateLoanReturned(db, loan_id, today)
              /\ writes' = writes + 1
              /\ writer' = IF RowsAffected(db, loan_id) = 0
                           THEN [IdleWriter EXCEPT !.pc = "done", !.handler = "return_loan",
                                    !.loan_id = loan_id, !.outcome = "error",
                                    !.error = NotFound]
                           ELSE [IdleWriter EXCEPT !.pc = "select", !.handler = "return_loan",
                                    !.loan_id = loan_id]
    /\ UNCHANGED <<tasks, harness>>

ReturnLoanUpdate == ReturnLoanUpdateOf(MaxWrites, LoanIds)

\* the SELECT ... WHERE loan_id = ? that ends create_loan and return_loan
WriterSelect ==
    /\ writer.pc = "select"
    /\ \E rec \in FetchOptional(db, Bind(Query(LoanByIdSql), Integer(writer.loan_id))) :
         writer' = IF rec.is_some
                   THEN [writer EXCEPT !.pc = "done", !.outcome = "ok", !.rec = rec]
                   ELSE [writer EXCEPT !.pc = "done", !.outcome = "error",
                                       !.error = Database(RowNotFound)]
    /\ UNCHANGED <<db, writes, tasks, harness>>

(***************************************************************************)
(* The server                                                              *)
(***************************************************************************)
ServerInit ==
    /\ db = InitialDb
    /\ writes = 0
    /\ tasks = [t \in TaskIds |-> IdleTask]
    /\ writer = IdleWriter

\* no call made yet
NoCall == [fn |-> "none"]

HarnessIdle ==
    /\ include_raw = None
    /\ include_var = None
    /\ sort_raw = None
    /\ sorts_out = None
    /\ call = NoCall

Init == ServerInit /\ HarnessIdle

Next ==
    \/ \E t \in TaskIds : ListLoansStart(t)
    \/ \E t \in TaskIds : ListLoansData(t)
    \/ \E t \in TaskIds : ListLoansMember(t)
    \/ \E t \in TaskIds : ListLoansItem(t)
    \/ \E t \in TaskIds : ListLoansEnd(t)
    \/ CreateLoanInsert
    \/ ReturnLoanUpdate
    \/ WriterSelect

Spec == Init /\ [][Next]_vars

(***************************************************************************)
(* What a request asks for, read off the request itself                    *)
(***************************************************************************)
Started(t) == tasks[t].pc # "idle"

Deserializes(request) == deserialize(request.query).ok
ParamsOf(request) == deserialize(request.query).value

\* the request got as far as the sort compiler
Compiling(request) ==
    /\ Deserializes(request)
    /\ require_access(request.access, Circulation, "Read").ok
    /\ ~limit_offset(ParamsOf(request).pagination, TRUE).panic

SortNames == {LOAN_SORTS[i].name : i \in 1..Len(LOAN_SORTS)}
FilterNames == {LOAN_FILTERS[i].name : i \in 1..Len(LOAN_FILTERS)}

UnsupportedSorts(request) ==
    LET sorts == ParamsOf(request).sorts
    IN  {sorts[i].field : i \in 1..Len(sorts)} \ SortNames

UnsupportedFilters(request) == DOMAIN ParamsOf(request).filters \ FilterNames

(***************************************************************************)
(* C1: every page[number] / page[size] input, absent, zero, negative or    *)
(* positive, is accepted and resolves to page_size in [1,100] and          *)
(* page_number >= 1; nothing is rejected.                                  *)
(***************************************************************************)
EveryPaginationAccepted ==
    \A t \in TaskIds :
      Started(t) =>
        /\ tasks[t].outcome # "rejected"
        /\ LET raw == tasks[t].request.query
               pair == resolved([page_number |-> raw.page_number,
                                 page_size |-> raw.page_size])
           IN  pair[1] >= 1 /\ pair[2] >= 1 /\ pair[2] <= MAX_PER_PAGE

(***************************************************************************)
(* C2 as claimed: a request carrying filter[name] for a name outside the   *)
(* allow-list always fails with the "filter name is not supported"         *)
(* BadRequest naming that filter, and sends no statement.                  *)
(***************************************************************************)
UnsupportedFilterAlwaysNamed ==
    \A t \in TaskIds :
      Started(t) /\ Deserializes(tasks[t].request) =>
        \A name \in UnsupportedFilters(tasks[t].request) :
          /\ tasks[t].outcome = "error"
          /\ tasks[t].error = FilterNotSupported(name)
          /\ tasks[t].queries = <<>>

(***************************************************************************)
(* C2 as amended: such a request sends no statement and never succeeds;    *)
(* once past the access check and the pagination it fails with a           *)
(* BadRequest, which is the "filter name is not supported" error naming    *)
(* that filter when every sort field is supported and it is the only       *)
(* filter of the request.                                                  *)
(***************************************************************************)
UnsupportedFilterRejected ==
    \A t \in TaskIds :
      Started(t) /\ Deserializes(tasks[t].request) =>
        \A name \in UnsupportedFilters(tasks[t].request) :
          /\ tasks[t].pc = "done"
          /\ tasks[t].outcome \in {"error", "panic"}
          /\ tasks[t].queries = <<>>
          /\ Compiling(tasks[t].request) =>
               /\ tasks[t].outcome = "error"
               /\ tasks[t].error.kind = "BadRequest"
          /\ ( /\ Compiling(tasks[t].request)
               /\ UnsupportedSorts(tasks[t].request) = {}
               /\ DOMAIN ParamsOf(tasks[t].request).filters = {name} )
               => tasks[t].error = FilterNotSupported(name)

\* the request with the one filter "bogus" has failed with the error naming it
UnsupportedFilterSeen ==
    \E t \in TaskIds :
      /\ tasks[t].pc = "done"
      /\ Deserializes(tasks[t].request)
      /\ UnsupportedFilters(tasks[t].request) # {}
      /\ tasks[t].error = FilterNotSupported(<<"b","o","g","u","s">>)
      /\ tasks[t].queries = <<>>

(***************************************************************************)
(* C3: sort_clause fails with "sorting by field is not supported" whenever *)
(* a parsed sort field, at any position, is not a name of the allow-list,  *)
(* and returns no ORDER BY text then.                                      *)
(***************************************************************************)
UnsupportedSortFails ==
    \A t \in TaskIds :
      Started(t) /\ Compiling(tasks[t].request)
                 /\ UnsupportedSorts(tasks[t].request) # {} =>
        /\ tasks[t].pc = "done"
        /\ tasks[t].outcome = "error"
        /\ \E field \in UnsupportedSorts(tasks[t].request) :
             tasks[t].error = SortNotSupported(field)
        /\ tasks[t].sort_clause = <<>>
        /\ tasks[t].queries = <<>>

\* a request whose second sort field is the unsupported one has failed
UnsupportedSortSeen ==
    \E t \in TaskIds :
      /\ tasks[t].pc = "done"
      /\ Compiling(tasks[t].request)
      /\ Len(ParamsOf(tasks[t].request).sorts) = 2
      /\ ParamsOf(tasks[t].request).sorts[1].field \in SortNames
      /\ ParamsOf(tasks[t].request).sorts[2].field \notin SortNames
      /\ tasks[t].error = SortNotSupported(<<"b","o","g","u","s">>)

(***************************************************************************)
(* C4: the count statement binds exactly the filter values v1..vN and the  *)
(* data statement v1..vN, LIMIT, OFFSET, in the order of the clauses,      *)
(* which is the order of the '?' of the WHERE text both share: each '?'    *)
(* gets the value supplied for the filter of its column, and LIMIT and     *)
(* OFFSET are bound last, on the data statement only.                      *)
(***************************************************************************)
\* the value a request supplies for the filter on a column, as it is bound
SuppliedFor(request, column) ==
    LET def == CHOOSE d \in Range(LOAN_FILTERS) : d.column = column
        raw == ParamsOf(request).filters[def.name][1]
    IN  IF def.value_type = "Boolean"
        THEN Boolean(raw \in {Str_true, <<"1">>})
        ELSE Text(raw)

\* two bound values are the same value of the same SQL type
SameValue(a, b) == a.type = b.type /\ a.val = b.val

WherePart(sql) ==
    IF IndexOf(sql, "WHERE") = 0 THEN <<>>
    ELSE SubSeq(sql, IndexOf(sql, "WHERE"), WhereEnd(sql))

BindOrderKept ==
    \A t \in TaskIds :
      Len(tasks[t].queries) >= 2 =>
        LET task == tasks[t]
            count == task.queries[1]
            data == task.queries[2]
            n == Cardinality(DOMAIN ParamsOf(task.request).filters)
        IN  /\ Len(count.arguments) = n
            /\ Len(data.arguments) = n + 2
            /\ WherePart(count.sql) = WherePart(data.sql)
            /\ Cardinality(Conditions(count.sql)) = n
            /\ \A i \in 1..n :
                 /\ SameValue(count.arguments[i], task.filters[i].value)
                 /\ SameValue(data.arguments[i], task.filters[i].value)
            /\ \A p \in Conditions(count.sql) :
                 SameValue(count.arguments[ArgIndex(count.sql, p)],
                           SuppliedFor(task.request, count.sql[p - 2]))
            /\ \A p \in Conditions(data.sql) :
                 SameValue(data.arguments[ArgIndex(data.sql, p)],
                           SuppliedFor(task.request, data.sql[p - 2]))
            /\ "LIMIT" \notin Range(count.sql)
            /\ ArgIndex(data.sql, IndexOf(data.sql, "LIMIT") + 1) = n + 1
            /\ ArgIndex(data.sql, IndexOf(data.sql, "OFFSET") + 1) = n + 2
            /\ SameValue(data.arguments[n + 1], Integer(task.limit))
            /\ SameValue(data.arguments[n + 2], Integer(task.offset))

\* both statements of a request with two filters of different values were sent
BindOrderSeen ==
    \E t \in TaskIds :
      /\ Len(tasks[t].queries) >= 2
      /\ Len(tasks[t].queries[1].arguments) = 2
      /\ tasks[t].queries[1].arguments[1].type = "Text"
      /\ tasks[t].queries[1].arguments[2].type = "Text"
      /\ tasks[t].queries[1].arguments[1].val # tasks[t].queries[1].arguments[2].val
      /\ Len(tasks[t].queries[2].arguments) = 4

(***************************************************************************)
(* C5: for the rows of one request that share a foreign key of an included *)
(* cached relation, the lookup for that key is sent exactly once, whether  *)
(* it finds a row or not, and every such row receives the same value.      *)
(***************************************************************************)
Lookups(task, sql, key) ==
    {i \in 1..Len(task.queries) :
       task.queries[i].sql = sql /\ task.queries[i].arguments = <<Text(key)>>}

\* the value attached under a relation key to the i-th resource of the response
Attached(task, i, relation) ==
    IF relation \in DOMAIN task.document.data[i].attributes
    THEN task.document.data[i].attributes[relation]
    ELSE None

OneLookupPerKey ==
    \A t \in TaskIds :
      tasks[t].outcome = "ok" =>
        LET task == tasks[t]
            rows == 1..Len(task.loans)
        IN  /\ Str_member \in task.includes =>
                 \A i \in rows : task.loans[i].member_id.is_some =>
                   /\ Cardinality(Lookups(task, MemberLookupSql,
                                          task.loans[i].member_id.value)) = 1
                   /\ \A j \in rows : task.loans[j].member_id = task.loans[i].member_id
                        => Attached(task, j, Str_member) = Attached(task, i, Str_member)
            /\ Str_item \in task.includes =>
                 \A i \in rows : task.loans[i].item_code.is_some =>
                   /\ Cardinality(Lookups(task, ItemLookupSql,
                                          task.loans[i].item_code.value)) = 1
                   /\ \A j \in rows : task.loans[j].item_code = task.loans[i].item_code
                        => Attached(task, j, Str_item) = Attached(task, i, Str_item)

(***************************************************************************)
(* C8: for the Boolean filter is_return the raw values "true" and "1" are  *)
(* bound as true, "false" and "0" as false, and every other string makes   *)
(* the filter compiler fail with "filter is_return must be boolean".       *)
(***************************************************************************)
\* the values bound for the is_return condition of the count statement
BoundForIsReturn(task) ==
    {task.queries[1].arguments[ArgIndex(task.queries[1].sql, p)] :
       p \in {q \in Conditions(task.queries[1].sql) :
                task.queries[1].sql[q - 2] = "loan.is_return"}}

\* the request reaches the filter compiler, which finds nothing wrong with
\* any filter other than is_return
OnlyIsReturnInDoubt(request) ==
    /\ Compiling(request)
    /\ UnsupportedSorts(request) = {}
    /\ LET filters == ParamsOf(request).filters
       IN  /\ Str_is_return \in DOMAIN filters
           /\ DOMAIN filters \subseteq FilterNames
           /\ \A name \in DOMAIN filters : Len(filters[name]) = 1

BooleanCoerced ==
    \A t \in TaskIds :
      Started(t) /\ OnlyIsReturnInDoubt(tasks[t].request) =>
        LET task == tasks[t]
            raw == ParamsOf(task.request).filters[Str_is_return][1]
        IN  IF raw \in {Str_true, <<"1">>}
            THEN /\ task.error.kind # "BadRequest"
                 /\ \A v \in BoundForIsReturn(task) : v.type = "Boolean" /\ v.val = TRUE
                 /\ BoundForIsReturn(task) # {}
            ELSE IF raw \in {Str_false, <<"0">>}
            THEN /\ task.error.kind # "BadRequest"
                 /\ \A v \in BoundForIsReturn(task) : v.type = "Boolean" /\ v.val = FALSE
                 /\ BoundForIsReturn(task) # {}
            ELSE /\ task.outcome = "error"
                 /\ task.error = MustBeBoolean(Str_is_return)
                 /\ task.queries = <<>>

\* filter[is_return]=TRUE has been refused
BooleanRefusedSeen ==
    \E t \in TaskIds :
      /\ tasks[t].pc = "done"
      /\ OnlyIsReturnInDoubt(tasks[t].request)
      /\ ParamsOf(tasks[t].request).filters[Str_is_return] = << <<"T","R","U","E">> >>
      /\ tasks[t].error = MustBeBoolean(Str_is_return)

(***************************************************************************)
(* C9: when the loan table is not written to during a list request,        *)
(* meta.total is the number of loans that satisfy every supplied filter    *)
(* and data is the slice [offset, offset + per_page) of those loans in the *)
(* requested sort order; on the three loans with is_return 0, 0, 1 the     *)
(* request filter[is_return]=0, sort=-loan_date, page[size]=1,             *)
(* page[number]=1 returns exactly loan 2 and total 2.                      *)
(***************************************************************************)
\* the loan satisfies the filters of the request
Satisfies(row, request) ==
    \A name \in DOMAIN ParamsOf(request).filters :
      LET raw == ParamsOf(request).filters[name][1]
      IN  CASE name = Str_is_return ->
                 row.is_return = (IF raw \in {Str_true, <<"1">>} THEN 1 ELSE 0)
            [] name = Str_item_code ->
                 row.item_code.is_some /\ row.item_code.value = raw
            [] name = Str_member_id ->
                 row.member_id.is_some /\ row.member_id.value = raw

\* the sort the request asks for: <<field, ascending>> pairs
RequestedSort(request) ==
    IF ParamsOf(request).sorts = <<>> THEN << <<Str_loan_date, FALSE>> >>
    ELSE [i \in 1..Len(ParamsOf(request).sorts) |->
            <<ParamsOf(request).sorts[i].field, ParamsOf(request).sorts[i].ascending>>]

\* a missing date sorts before every date
SortValue(row, field) ==
    CASE field = Str_loan_date -> row.loan_date
      [] field = Str_due_date -> row.due_date
      [] field = Str_loan_id -> row.loan_id
      [] field = Str_return_date ->
           IF row.return_date.is_some THEN row.return_date.value ELSE -1

RECURSIVE MustPrecede(_, _, _)
MustPrecede(r1, r2, keys) ==
    IF keys = <<>> THEN FALSE
    ELSE LET v1 == SortValue(r1, Head(keys)[1])
             v2 == SortValue(r2, Head(keys)[1])
         IN  IF v1 = v2 THEN MustPrecede(r1, r2, Tail(keys))
             ELSE IF Head(keys)[2] THEN v1 < v2 ELSE v1 > v2

InRequestedOrder(rows, request) ==
    \A i, j \in 1..Len(rows) :
      i < j => ~MustPrecede(rows[j], rows[i], RequestedSort(request))

DocumentIds(task) == [i \in 1..Len(task.document.data) |-> task.document.data[i].id]

ExampleRequest ==
    Request(ReadOnly,
            RawParams(Some(1), Some(1), None,
                      Some(<<"-","l","o","a","n","_","d","a","t","e">>),
                      FilterKey(Str_is_return) :> <<"0">>))

DiffersOnlyInFilterValues(r1, r2) ==
    /\ r1.access = r2.access
    /\ r1.query.page_number = r2.query.page_number
    /\ r1.query.page_size = r2.query.page_size
    /\ r1.query.include = r2.query.include
    /\ r1.query.sort = r2.query.sort
    /\ DOMAIN r1.query.extras = DOMAIN r2.query.extras

SqlTextFixedByFilterNames ==
    \A t \in TaskIds :
      tasks[t].queries # <<>> =>
        \A other \in Requests :
          DiffersOnlyInFilterValues(tasks[t].request, other) =>
            \A iteration \in Iterations(other) :
              LET run == ListLoansCount(other, FALSE, iteration, db)
              IN  run.queries # <<>> =>
                    /\ run.where_sql = tasks[t].where_sql
                    /\ run.sort_clause = tasks[t].sort_clause

(***************************************************************************)
(* Parser harness: a client that resubmits variants of one include string  *)
(* and has a sort string parsed.                                           *)
(***************************************************************************)
IncludeAlphabet == {"a", "A", "b", ",", " "}
SortAlphabet == {"a", "-", "+", ",", " "}

RECURSIVE StringsUpTo(_, _)
StringsUpTo(alphabet, n) ==
    IF n = 0 THEN {<<>>}
    ELSE LET shorter == StringsUpTo(alphabet, n - 1)
         IN  shorter \cup {Append(s, c) : s \in shorter, c \in alphabet}

InitParse ==
    /\ \/ /\ include_raw \in {None, Some(ExampleInclude)}
                 \cup {Some(s) : s \in StringsUpTo(IncludeAlphabet, MaxRawLen)}
          /\ sort_raw = None
       \/ /\ include_raw = None
          /\ sort_raw \in {Some(ExampleSort)}
                 \cup {Some(s) : s \in StringsUpTo(SortAlphabet, MaxRawLen)}
    /\ include_var = include_raw
    /\ sorts_out = None
    /\ call = NoCall
    /\ ServerInit

SetVariant(parts) ==
    /\ include_var' = Some(Join(parts, <<",">>))
    /\ UNCHANGED <<include_raw, sort_raw, sorts_out, server, call>>

Fits(parts) == Len(Join(parts, <<",">>)) <= MaxVariantLen

\* the same names in another order
PermuteInclude ==
    /\ include_var.is_some
    /\ LET parts == Split(include_var.value, ",")
       IN  \E i \in 1..(Len(parts) - 1) :
             SetVariant([parts EXCEPT ![i] = parts[i + 1], ![i + 1] = parts[i]])

\* one letter in the other case
RecaseInclude ==
    /\ include_var.is_some
    /\ \E i \in 1..Len(include_var.value) :
         LET c == include_var.value[i]
             d == IF LowerChar(c) = c THEN UpperChar(c) ELSE LowerChar(c)
         IN  /\ d # c
             /\ include_var' = Some([include_var.value EXCEPT ![i] = d])
             /\ UNCHANGED <<include_raw, sort_raw, sorts_out, server, call>>

\* whitespace around one name
PadInclude ==
    /\ include_var.is_some
    /\ LET parts == Split(include_var.value, ",")
       IN  \E i \in 1..Len(parts), left \in BOOLEAN :
             LET padded == [parts EXCEPT ![i] =
                              IF left THEN <<" ">> \o @ ELSE @ \o <<" ">>]
             IN  Fits(padded) /\ SetVariant(padded)

\* one name once more
DuplicateInclude ==
    /\ include_var.is_some
    /\ LET parts == Split(include_var.value, ",")
       IN  \E i \in 1..Len(parts) :
             Fits(Append(parts, parts[i])) /\ SetVariant(Append(parts, parts[i]))

\* one more empty segment
EmptySegmentInclude ==
    /\ include_var.is_some
    /\ LET parts == Split(include_var.value, ",")
       IN  \E i \in 0..Len(parts) :
             LET more == SubSeq(parts, 1, i) \o << <<>> >>
                            \o SubSeq(parts, i + 1, Len(parts))
             IN  Fits(more) /\ SetVariant(more)

ParseSort ==
    /\ sort_raw.is_some
    /\ sorts_out = None
    /\ sorts_out' = Some(parse_sort_string(sort_raw.value))
    /\ UNCHANGED <<include_raw, include_var, sort_raw, server, call>>

NextParse ==
    \/ PermuteInclude
    \/ RecaseInclude
    \/ PadInclude
    \/ DuplicateInclude
    \/ EmptySegmentInclude
    \/ ParseSort

SpecParse == InitParse /\ [][NextParse]_vars

(***************************************************************************)
(* C6: includes() yields the same set of trimmed, lower-cased names for    *)
(* every permutation, letter case, padding, duplication and empty-segment  *)
(* variant of one include string; "Foo, bar,, BAR" yields {"foo","bar"};   *)
(* an absent include yields the empty set.                                 *)
(***************************************************************************)
IncludeVariantsAgree ==
    /\ parse_include(include_var) = parse_include(include_raw)
    /\ include_raw = Some(ExampleInclude)
         => parse_include(include_var) = {<<"f","o","o">>, <<"b","a","r">>}
    /\ include_var = None => parse_include(include_var) = {}

\* a variant of the example in another order and another letter case
IncludeVariantSeen ==
    /\ include_raw = Some(ExampleInclude)
    /\ include_var.is_some
    /\ include_var.value # ExampleInclude
    /\ ToLowercase(include_var.value) # ToLowercase(ExampleInclude)
    /\ include_var.value # ToLowercase(include_var.value)

(***************************************************************************)
(* C7: parse_sort_string yields one {field, ascending} entry per non-empty *)
(* trimmed comma segment, in segment order: '-' gives descending, '+' or   *)
(* no sign ascending, field is the segment without that one sign;          *)
(* "-due_date,loan_id" yields [{due_date,false},{loan_id,true}].           *)
(***************************************************************************)
SortSegments(raw) ==
    LET parts == Split(raw, ",")
    IN  SelectSeq([i \in 1..Len(parts) |-> Trim(parts[i])], LAMBDA seg : seg # <<>>)

SortParsedPerSegment ==
    sorts_out.is_some =>
      LET segs == SortSegments(sort_raw.value)
      IN  /\ Len(sorts_out.value) = Len(segs)
          /\ \A i \in 1..Len(segs) :
               LET seg == segs[i]
                   order == sorts_out.value[i]
               IN  /\ seg[1] = "-" => order.field = Tail(seg) /\ ~order.ascending
                   /\ seg[1] = "+" => order.field = Tail(seg) /\ order.ascending
                   /\ seg[1] \notin {"-", "+"} => order.field = seg /\ order.ascending
          /\ sort_raw.value = ExampleSort =>
               sorts_out.value = << SortOrder(<<"d","u","e","_","d","a","t","e">>, FALSE), SortOrder(<<"l","o","a","n","_","i","d">>, TRUE) >>

\* two segments parsed, the first descending and the second with a '+' sign
SortParsedSeen ==
    /\ sorts_out.is_some
    /\ Len(sorts_out.value) = 2
    /\ ~sorts_out.value[1].ascending
    /\ \E i \in 1..Len(sort_raw.value) : sort_raw.value[i] = "+"
    /\ sorts_out.value[2].ascending

(***************************************************************************)
(* list_items, list_members and the two searches of src/resources/         *)
(* biblios.rs, each from the extraction of its arguments to its first      *)
(* statement                                                               *)
(***************************************************************************)
ITEM_SORTS ==
    << SortField(<<"i","t","e","m","_","i","d">>, "item.item_id"),
       SortField(Str_item_code, "item.item_code"),
       SortField(<<"l","a","s","t","_","u","p","d","a","t","e">>, "item.last_update") >>

ITEM_FILTERS ==
    << FilterField(Str_item_code, "item.item_code", "Equals", "Text"),
       FilterField(<<"c","a","l","l","_","n","u","m","b","e","r">>, "item.call_number", "Like", "Text"),
       FilterField(<<"l","o","c","a","t","i","o","n","_","i","d">>, "item.location_id", "Equals", "Text"),
       FilterField(<<"i","t","e","m","_","s","t","a","t","u","s","_","i","d">>, "item.item_status_id", "Equals", "Text") >>

MEMBER_SORTS ==
    << SortField(Str_member_id, "member.member_id"),
       SortField(Str_member_name, "member.member_name"),
       SortField(<<"e","x","p","i","r","e","_","d","a","t","e">>, "member.expire_date"),
       SortField(<<"r","e","g","i","s","t","e","r","_","d","a","t","e">>, "member.register_date") >>

MEMBER_FILTERS ==
    << FilterField(Str_member_id, "member.member_id", "Equals", "Text"),
       FilterField(Str_member_name, "member.member_name", "Like", "Text"),
       FilterField(<<"m","e","m","b","e","r","_","e","m","a","i","l">>, "member.member_email", "Equals", "Text") >>

\* what a handler has done when its first statement has been sent, or when
\* it has returned before: the outcome so far, the error and the statements
Stopped(outcome, error) == [outcome |-> outcome, error |-> error, queries |-> <<>>]
Counting(count) == [outcome |-> "pending", error |-> NoError, queries |-> <<count>>]

\* the count statement of list_items and list_members reached with no filter
\* compiled, as a handler would send it that counted before it validated
ListCountFirst(request, module, sorts, default, filters, table, checks, iteration) ==
    LET parsed == deserialize(request.query)
    IN  IF ~parsed.ok THEN Stopped("rejected", parsed.error)
        ELSE Counting(Query(<<"SELECT", "COUNT(*)", "FROM", table>>))

\* the part list_items and list_members share: require_access, limit_offset,
\* sort_clause, filter_clauses, where_clause and the count statement
ListCount(request, module, sorts, default, filters, table, checks, iteration) ==
    LET parsed == deserialize(request.query)
    IN  IF ~parsed.ok THEN Stopped("rejected", parsed.error)
        ELSE
        LET params == parsed.value
            access == require_access(request.access, module, "Read")
            paging == limit_offset(params.pagination, checks)
            sort_sql == sort_clause(params, sorts, default)
            clauses == filter_clauses(params, filters, iteration)
        IN  IF ~access.ok THEN Stopped("error", access.error)
            ELSE IF paging.panic THEN Stopped("panic", NoError)
            ELSE IF ~sort_sql.ok THEN Stopped("error", sort_sql.error)
            ELSE IF ~clauses.ok THEN Stopped("error", clauses.error)
            ELSE Counting(bind_filters_to_scalar(
                     Query(<<"SELECT", "COUNT(*)", "FROM", table>>
                               \o where_clause(clauses.value)),
                     clauses.value))

list_items(request, checks, iteration) ==
    ListCount(request, Bibliography, ITEM_SORTS, <<"item.item_id", "DESC">>,
              ITEM_FILTERS, "item", checks, iteration)

list_members(request, checks, iteration) ==
    ListCount(request, Membership, MEMBER_SORTS, <<"member.register_date", "DESC">>,
              MEMBER_FILTERS, "member", checks, iteration)

\* list_loans, seen the same way
list_loans(request, checks, iteration) ==
    LET task == ListLoansCount(request, checks, iteration, InitialDb)
    IN  [outcome |-> task.outcome, error |-> task.error, queries |-> task.queries]

QueryCannotBeEmpty == BadRequest(<< "query cannot be empty" >>)
ClausesCannotBeEmpty == BadRequest(<< "clauses cannot be empty" >>)

SimpleSearchFrom ==
    <<"FROM", "biblio", "b",
      "LEFT JOIN", "biblio_author", "ba", "ON", "ba.biblio_id", "=", "b.biblio_id",
      "LEFT JOIN", "mst_author", "a", "ON", "a.author_id", "=", "ba.author_id",
      "LEFT JOIN", "biblio_topic", "bt", "ON", "bt.biblio_id", "=", "b.biblio_id",
      "LEFT JOIN", "mst_topic", "t", "ON", "t.topic_id", "=", "bt.topic_id">>

SimpleSearchCountSql ==
    <<"SELECT", "COUNT(DISTINCT b.biblio_id)">> \o SimpleSearchFrom
      \o <<"WHERE", "b.title", "LIKE", "?", "OR", "a.author_name", "LIKE", "?",
           "OR", "t.topic", "LIKE", "?">>

\* simple_search_biblios; request.q is the q parameter
simple_search_biblios(request, checks) ==
    LET parsed == deserialize(request.query)
    IN  IF ~parsed.ok THEN Stopped("rejected", parsed.error)
        ELSE
        LET access == require_access(request.access, Bibliography, "Read")
            keyword == Trim(request.q)
            paging == limit_offset(parsed.value.pagination, checks)
            pattern == Text(<<"%">> \o keyword \o <<"%">>)
        IN  IF ~access.ok THEN Stopped("error", access.error)
            ELSE IF keyword = <<>> THEN Stopped("error", QueryCannotBeEmpty)
            ELSE IF paging.panic THEN Stopped("panic", NoError)
            ELSE Counting(Bind(Bind(Bind(Query(SimpleSearchCountSql), pattern),
                                    pattern), pattern))

\* AdvancedClause
AdvancedClause(field, value, op, type) ==
    [field |-> field, value |-> value, op |-> op, type |-> type]

\* match_pattern
match_pattern(value, matcher) ==
    CASE matcher = "Contains" -> <<"%">> \o value \o <<"%">>
      [] matcher = "Exact" -> value
      [] matcher = "StartsWith" -> value \o <<"%">>
      [] matcher = "EndsWith" -> <<"%">> \o value

\* the column a search field is matched on
SearchColumn(field) ==
    CASE field = "Title" -> "b.title"
      [] field = "Author" -> "a.author_name"
      [] field = "Topic" -> "t.topic"
      [] field = "Publisher" -> "p.publisher_name"
      [] field = "IsbnIssn" -> "b.isbn_issn"
      [] field = "CallNumber" -> "b.call_number"
      [] field = "Classification" -> "b.classification"

\* the joins a search field needs
SearchJoin(field) ==
    CASE field = "Author" ->
           <<"LEFT JOIN", "biblio_author", "ba", "ON", "ba.biblio_id", "=", "b.biblio_id",
             "LEFT JOIN", "mst_author", "a", "ON", "a.author_id", "=", "ba.author_id">>
      [] field = "Topic" ->
           <<"LEFT JOIN", "biblio_topic", "bt", "ON", "bt.biblio_id", "=", "b.biblio_id",
             "LEFT JOIN", "mst_topic", "t", "ON", "t.topic_id", "=", "bt.topic_id">>
      [] field = "Publisher" ->
           <<"LEFT JOIN", "mst_publisher", "p", "ON", "p.publisher_id", "=", "b.publisher_id">>
      [] OTHER -> <<>>

\* BooleanOp::as_sql
as_sql(op) == IF op = "And" THEN "AND" ELSE "OR"

\* the loop of advanced_search_biblios over the clauses kept: the joins, the
\* conditions and the bindings
RECURSIVE AdvancedParts(_, _)
AdvancedParts(clauses, parts) ==
    IF clauses = <<>> THEN parts
    ELSE LET clause == Head(clauses)
             joined == \E i \in 1..Len(parts.fields) : parts.fields[i] = clause.field
             condition == <<SearchColumn(clause.field), "LIKE", "?">>
         IN  AdvancedParts(Tail(clauses),
               [fields |-> Append(parts.fields, clause.field),
                joins |-> IF joined THEN parts.joins
                          ELSE parts.joins \o SearchJoin(clause.field),
                conditions |-> IF parts.conditions = <<>> THEN condition
                               ELSE parts.conditions \o <<as_sql(clause.op)>> \o condition,
                bindings |-> Append(parts.bindings,
                                    Text(match_pattern(Trim(clause.value), clause.type)))])

RECURSIVE BindAll(_, _)
BindAll(query, values) ==
    IF values = <<>> THEN query
    ELSE BindAll(Bind(query, Head(values)), Tail(values))

\* advanced_search_biblios; request.clauses is the clause list of the payload
advanced_search_biblios(request, checks) ==
    LET parsed == deserialize(request.query)
    IN  IF ~parsed.ok THEN Stopped("rejected", parsed.error)
        ELSE
        LET access == require_access(request.access, Bibliography, "Read")
            clauses == SelectSeq(request.clauses, LAMBDA clause : Trim(clause.value) # <<>>)
            paging == limit_offset(parsed.value.pagination, checks)
            parts == AdvancedParts(clauses, [fields |-> <<>>, joins |-> <<>>,
                                             conditions |-> <<>>, bindings |-> <<>>])
        IN  IF ~access.ok THEN Stopped("error", access.error)
            ELSE IF clauses = <<>> THEN Stopped("error", ClausesCannotBeEmpty)
            ELSE IF paging.panic THEN Stopped("panic", NoError)
            ELSE Counting(BindAll(
                     Query(<<"SELECT", "COUNT(DISTINCT b.biblio_id)", "FROM", "biblio", "b">>
                             \o parts.joins \o <<"WHERE">> \o parts.conditions),
                     parts.bindings))

(***************************************************************************)
(* Call harness: a client that calls one handler or one function of the    *)
(* query engine at a time and keeps what it answered                       *)
(***************************************************************************)
AllRead ==
    << ModulePermission(Bibliography, TRUE, FALSE),
       ModulePermission(Circulation, TRUE, FALSE),
       ModulePermission(Membership, FALSE, TRUE) >>

CallSortInputs ==
    { None,
      Some(<<"i","t","e","m","_","c","o","d","e">>),
      Some(<<"-","m","e","m","b","e","r","_","n","a","m","e">>),
      Some(<<"l","o","a","n","_","i","d",",","-","b","o","g","u","s">>),
      Some(<<"-","l","o","a","n","_","d","a","t","e",","," ","d","u","e","_","d","a","t","e">>),
      Some(<<" ",","," ">>) }

CallFilterInputs ==
    { NoExtras,
      FilterKey(Str_item_code) :> I1,
      FilterKey(Str_member_name) :> <<"A","n","n">>,
      FilterKey(<<"c","a","l","l","_","n","u","m","b","e","r">>) :> <<"Q","A">>,
      FilterKey(Str_item_code) :> <<"I","1",",",",","I","2">>,
      FilterKey(Str_member_id) :> <<"M","1",","," ","M","2">>,
      FilterKey(Str_member_id) :> <<"M","1",",">>,
      FilterKey(Str_is_return) :> <<"m","a","y","b","e">>,
      FilterKey(Str_is_return) :> <<"1">>,
      (FilterKey(<<"b","o","g","u","s">>) :> <<"x">>) @@ (FilterKey(Str_item_code) :> I1),
      (FilterKey(Str_item_code) :> I1) @@ (FilterKey(Str_member_id) :> M1) }

\* the list requests of the harness: every sort with every filter, with and
\* without access, and one page too far for u32 and one below zero
CallRequests ==
    {Request(access, RawParams(None, None, None, srt, extras)) :
        access \in {<<>>, AllRead}, srt \in CallSortInputs, extras \in CallFilterInputs}
    \cup
    {Request(AllRead, RawParams(Some(n), Some(100), None, Some(<<"b","o","g","u","s">>), NoExtras)) :
        n \in {-1, 42949674}}

SearchKeywords == { <<>>, <<" ">>, <<"a">>, <<" ", "a", " ">> }

SearchClauses ==
    { <<>>,
      << AdvancedClause("Title", <<" ">>, "And", "Contains") >>,
      << AdvancedClause("Title", <<"a">>, "And", "Contains") >>,
      << AdvancedClause("Author", <<"a">>, "And", "Exact"),
         AdvancedClause("Author", <<"b">>, "Or", "StartsWith") >>,
      << AdvancedClause("Title", <<" ">>, "And", "Contains"),
         AdvancedClause("Topic", <<"b", " ">>, "Or", "EndsWith") >>,
      << AdvancedClause("Publisher", <<"p">>, "And", "Contains"),
         AdvancedClause("IsbnIssn", <<"1">>, "And", "Exact"),
         AdvancedClause("CallNumber", <<"Q">>, "Or", "Contains"),
         AdvancedClause("Classification", <<"0">>, "And", "StartsWith") >> }

SearchRequests ==
    {Request(access, RawParams(n, None, None, None, NoExtras)) :
        access \in {<<>>, AllRead}, n \in {None, Some(2)}}

Called(fn, request, result) == [fn |-> fn, request |-> request, result |-> result]

CallIdle == UNCHANGED <<server, include_raw, include_var, sort_raw, sorts_out>>

CallListLoans ==
    /\ call = NoCall
    /\ \E request \in CallRequests :
         \E checks \in Builds(request), iteration \in Iterations(request) :
           call' = Called("list_loans", request, list_loans(request, checks, iteration))
    /\ CallIdle

CallListItems ==
    /\ call = NoCall
    /\ \E request \in CallRequests :
         \E checks \in Builds(request), iteration \in Iterations(request) :
           call' = Called("list_items", request, list_items(request, checks, iteration))
    /\ CallIdle

CallListMembers ==
    /\ call = NoCall
    /\ \E request \in CallRequests :
         \E checks \in Builds(request), iteration \in Iterations(request) :
           call' = Called("list_members", request, list_members(request, checks, iteration))
    /\ CallIdle

CallSimpleSearch ==
    /\ call = NoCall
    /\ \E request \in SearchRequests, q \in SearchKeywords :
         LET asked == [access |-> request.access, query |-> request.query, q |-> q]
         IN  call' = Called("simple_search_biblios", asked,
                            simple_search_biblios(asked, FALSE))
    /\ CallIdle

CallAdvancedSearch ==
    /\ call = NoCall
    /\ \E request \in SearchRequests, clauses \in SearchClauses :
         LET asked == [access |-> request.access, query |-> request.query,
                       clauses |-> clauses]
         IN  call' = Called("advanced_search_biblios", asked,
                            advanced_search_biblios(asked, FALSE))
    /\ CallIdle

(***************************************************************************)
(* C11: in the list and search handlers every validation error             *)
(* (unsupported sort, unsupported filter, several values for one filter,   *)
(* failed coercion, empty search keyword, empty clause set) is returned    *)
(* before the first statement is sent: a request that fails validation     *)
(* sends no statement at all.                                              *)
(***************************************************************************)
ListHandlers == {"list_loans", "list_items", "list_members"}

SearchHandlers == {"simple_search_biblios", "advanced_search_biblios"}

HandlerModule(fn) ==
    CASE fn = "list_loans" -> Circulation
      [] fn = "list_members" -> Membership
      [] OTHER -> Bibliography

HandlerSorts(fn) ==
    CASE fn = "list_loans" -> LOAN_SORTS
      [] fn = "list_items" -> ITEM_SORTS
      [] fn = "list_members" -> MEMBER_SORTS

HandlerFilters(fn) ==
    CASE fn = "list_loans" -> LOAN_FILTERS
      [] fn = "list_items" -> ITEM_FILTERS
      [] fn = "list_members" -> MEMBER_FILTERS

\* the call got past the extraction of its arguments and the access check
Admitted(c) ==
    /\ Deserializes(c.request)
    /\ require_access(c.request.access, HandlerModule(c.fn), "Read").ok

\* the filter entry is one the compiler has to refuse
RefusedFilter(allowed, name, values) ==
    \/ \A i \in 1..Len(allowed) : allowed[i].name # name
    \/ Len(values) > 1
    \/ \E i \in 1..Len(allowed) :
         /\ allowed[i].name = name
         /\ allowed[i].operator = "Equals"
         /\ \/ /\ allowed[i].value_type = "Boolean"
               /\ values[1] \notin {Str_true, Str_false, <<"1">>, <<"0">>}
            \/ /\ allowed[i].value_type = "Integer"
               /\ ~ParseI64(values[1]).ok

\* the request asks for a sort or a filter the handler has to refuse
FailsValidation(c) ==
    LET params == ParamsOf(c.request)
    IN  \/ \E i \in 1..Len(params.sorts) :
             \A j \in 1..Len(HandlerSorts(c.fn)) :
               HandlerSorts(c.fn)[j].name # params.sorts[i].field
        \/ \E name \in DOMAIN params.filters :
             RefusedFilter(HandlerFilters(c.fn), name, params.filters[name])

ValidationBeforeQueries ==
    /\ call.fn \in ListHandlers \cup SearchHandlers =>
         (call.result.error.kind = "BadRequest" => call.result.queries = <<>>)
    /\ call.fn \in ListHandlers /\ Admitted(call) =>
         IF FailsValidation(call)
         THEN /\ call.result.queries = <<>>
              /\ call.result.outcome \in {"error", "panic"}
              /\ call.result.outcome = "error" => call.result.error.kind = "BadRequest"
         ELSE call.result.error.kind # "BadRequest"
    /\ call.fn = "simple_search_biblios" /\ Admitted(call) /\ Trim(call.request.q) = <<>> =>
         /\ call.result.error = QueryCannotBeEmpty
         /\ call.result.queries = <<>>
    /\ ( /\ call.fn = "advanced_search_biblios"
         /\ Admitted(call)
         /\ \A i \in 1..Len(call.request.clauses) :
              Trim(call.request.clauses[i].value) = <<>> ) =>
         /\ call.result.error = ClausesCannotBeEmpty
         /\ call.result.queries = <<>>

\* list_items has refused a filter with two values without a statement
ValidationErrorSeen ==
    /\ call.fn = "list_items"
    /\ Admitted(call)
    /\ call.result.error = MultipleValues(Str_item_code)
    /\ call.result.queries = <<>>

(***************************************************************************)
(* Calls of the filter compiler with the declared allow-lists and with     *)
(* one-field allow-lists of every operator and value type                  *)
(***************************************************************************)
Str_n == <<"n">>

OneFieldLists ==
    { << FilterField(Str_n, "t.n", operator, value_type) >> :
        operator \in {"Equals", "Like"},
        value_type \in {"Text", "Integer", "Boolean"} }

OneFieldInputs ==
    { FilterKey(Str_n) :> raw :
        raw \in { <<"a","b","c">>, <<"4","2">>, <<"-","7">>, <<"4",",","5">>, <<"t","r","u","e">>, <<"4","x">>, <<" ","1","2"," ",",">> } }

CallFilterClauses ==
    /\ call = NoCall
    /\ \E pair \in ({LOAN_FILTERS, ITEM_FILTERS, MEMBER_FILTERS} \X CallFilterInputs)
                      \cup (OneFieldLists \X OneFieldInputs) :
         LET params == deserialize(RawParams(None, None, None, None, pair[2])).value
         IN  \E iteration \in Orders(DOMAIN params.filters) :
               call' = [fn |-> "filter_clauses", params |-> params,
                        allowed |-> pair[1], iteration |-> iteration,
                        result |-> filter_clauses(params, pair[1], iteration)]
    /\ CallIdle

(***************************************************************************)
(* C12: when an allow-listed filter was given more than one non-empty      *)
(* value, filter_clauses fails and returns no clauses; the error is the    *)
(* multiple-values BadRequest naming that filter whenever no other entry   *)
(* of the request is refused.                                              *)
(***************************************************************************)
MultipleValuesRefused ==
    call.fn = "filter_clauses" =>
      \A name \in DOMAIN call.params.filters :
        ( /\ \E i \in 1..Len(call.allowed) : call.allowed[i].name = name
          /\ Len(call.params.filters[name]) > 1 ) =>
            /\ ~call.result.ok
            /\ call.result.error.kind = "BadRequest"
            /\ (\A other \in DOMAIN call.params.filters \ {name} :
                  ~RefusedFilter(call.allowed, other, call.params.filters[other]))
                 => call.result = Err(MultipleValues(name))

\* filter[member_id]=M1, M2 was refused by the loans allow-list
MultipleValuesSeen ==
    /\ call.fn = "filter_clauses"
    /\ call.allowed = LOAN_FILTERS
    /\ Str_member_id \in DOMAIN call.params.filters
    /\ call.params.filters[Str_member_id] = << M1, <<"M", "2">> >>
    /\ call.result = Err(MultipleValues(Str_member_id))

(***************************************************************************)
(* C13: a filter field of value type Integer, whatever its operator, has   *)
(* its one raw value parsed as a 64-bit signed integer and bound as an     *)
(* Integer, and a value that does not parse fails with the                 *)
(* must-be-an-integer BadRequest.                                          *)
(***************************************************************************)
IntegerAlwaysParsed ==
    ( /\ call.fn = "filter_clauses"
      /\ Len(call.allowed) = 1
      /\ call.allowed[1].value_type = "Integer"
      /\ DOMAIN call.params.filters = {call.allowed[1].name}
      /\ Len(call.params.filters[call.allowed[1].name]) = 1 ) =>
        LET raw_value == call.params.filters[call.allowed[1].name][1]
        IN  IF ParseI64(raw_value).ok
            THEN /\ call.result.ok
                 /\ call.result.value[1].value.type = "Integer"
                 /\ call.result.value[1].value.val = ParseI64(raw_value).value
            ELSE call.result = Err(MustBeInteger(call.allowed[1].name))

(***************************************************************************)
(* Error responses                                                         *)
(***************************************************************************)
JsonApiError(status, title, detail) ==
    [status |-> status, title |-> title, detail |-> detail]

\* the (status, title, detail) triple into_response matches the error to
StatusTitleDetail(error) ==
    CASE error.kind = "Unauthorized" -> << 401, "Unauthorized", Some(error.message) >>
      [] error.kind = "Forbidden" -> << 403, "Forbidden", Some(error.message) >>
      [] error.kind = "NotFound" -> << 404, "Not Found", Some(<<"not found">>) >>
      [] error.kind = "BadRequest" -> << 400, "Bad Request", Some(error.message) >>
      [] error.kind = "Database" ->
            IF error.message = RowNotFound
            THEN << 404, "Not Found", Some(<<"not found">>) >>
            ELSE << 500, "Database Error", None >>
      [] error.kind = "Jwt" -> << 401, "Invalid Token", Some(<<"invalid token">>) >>
      [] error.kind = "Internal" -> << 500, "Internal Error", None >>

\* a response that reports every database error as a bad request
IntoResponseDatabaseAsBadRequest(error) ==
    LET matched == IF error.kind = "Database"
                   THEN << 400, "Bad Request", None >>
                   ELSE StatusTitleDetail(error)
    IN  [status |-> matched[1],
         body |-> [errors |-> << JsonApiError(to_string(matched[1]),
                                              Some(matched[2]), matched[3]) >>]]

\* a response that carries the message of every error as its detail
IntoResponseWithMessage(error) ==
    LET matched == StatusTitleDetail(error)
    IN  [status |-> matched[1],
         body |-> [errors |-> << JsonApiError(to_string(matched[1]),
                                              Some(matched[2]), Some(error.message)) >>]]

\* AppError::into_response
into_response(error) ==
    LET matched == StatusTitleDetail(error)
    IN  [status |-> matched[1],
         body |-> [errors |-> << JsonApiError(to_string(matched[1]),
                                              Some(matched[2]), matched[3]) >>]]

SyntaxError == <<"You have an error in your SQL syntax near SELECT loan_id">>

AppErrors ==
    { Unauthorized(<<"missing bearer token">>),
      Forbidden(<<"insufficient permissions">>),
      NotFound,
      QueryCannotBeEmpty,
      ClausesCannotBeEmpty,
      SortNotSupported(<<"b","o","g","u","s">>),
      FilterNotSupported(<<"b","o","g","u","s">>),
      MultipleValues(Str_member_id),
      MustBeBoolean(Str_is_return),
      MustBeInteger(Str_n),
      Database(RowNotFound),
      Database(PoolTimedOut),
      Database(SyntaxError),
      Jwt(<<"ExpiredSignature">>),
      Internal(<<"failed to hash password">>) }

CallIntoResponse ==
    /\ call = NoCall
    /\ \E error \in AppErrors :
         call' = [fn |-> "into_response", error |-> error,
                  response |-> into_response(error)]
    /\ CallIdle

(***************************************************************************)
(* C14: error kinds map to distinct HTTP statuses: a validation error      *)
(* (BadRequest) gives 400; a database error gives 500, except row not      *)
(* found, which gives 404; a validation error is never a 5xx and a storage *)
(* failure is never a 400.                                                 *)
(***************************************************************************)
StatusByErrorKind ==
    call.fn = "into_response" =>
      /\ call.error.kind = "BadRequest" => call.response.status = 400
      /\ call.error.kind = "Database" =>
           call.response.status = (IF call.error.message = RowNotFound THEN 404 ELSE 500)
      /\ call.response.status >= 500 => call.error.kind \in {"Database", "Internal"}
      /\ call.response.status = 400 => call.error.kind = "BadRequest"

\* a pool timeout was answered with 500
StorageFailureAnswered ==
    /\ call.fn = "into_response"
    /\ call.error = Database(PoolTimedOut)
    /\ call.response.status = 500

(***************************************************************************)
(* C15: every error response carries one error whose status is the HTTP    *)
(* status in decimal and whose title is present; for database errors       *)
(* other than row not found and for internal errors the detail is absent,  *)
(* so the text of the driver's or the internal error is in no response.    *)
(***************************************************************************)
ErrorBodyHidesInternals ==
    call.fn = "into_response" =>
      LET errors == call.response.body.errors
      IN  /\ Len(errors) = 1
          /\ Len(errors[1].status) = 3
          /\ ParseI64(errors[1].status) = Ok(call.response.status)
          /\ errors[1].title.is_some
          /\ errors[1].title.value # ""
          /\ ( \/ call.error.kind = "Internal"
               \/ call.error.kind = "Database" /\ call.error.message # RowNotFound ) =>
                 ~errors[1].detail.is_some

\* an SQL syntax error was answered without a detail
DriverTextWithheld ==
    /\ call.fn = "into_response"
    /\ call.error = Database(SyntaxError)
    /\ call.response.body.errors[1].title = Some("Database Error")
    /\ ~call.response.body.errors[1].detail.is_some

(***************************************************************************)
(* Sparse fieldsets                                                        *)
(***************************************************************************)
FieldsKey(name) == FieldsPrefix \o name \o CloseBracket

FieldsInputs ==
    { NoExtras,
      FieldsKey(Str_loans) :> <<"l","o","a","n","_","i","d",",","i","t","e","m">>,
      FieldsKey(Str_loans) :> <<" ","d","u","e","_","d","a","t","e"," ",","," ","b","o","g","u","s">>,
      FieldsKey(Str_loans) :> <<"m","e","m","b","e","r",",","m","e","m","b","e","r">>,
      FieldsKey(Str_loans) :> <<" ",","," ">>,
      FieldsKey(<<"m","e","m","b","e","r","s">>) :> <<"m","e","m","b","e","r","_","n","a","m","e">>,
      (FieldsKey(Str_loans) :> <<"i","s","_","r","e","t","u","r","n">>) @@ (FilterKey(Str_item_code) :> I1) }

CallResourceWithFields ==
    /\ call = NoCall
    /\ \E extras \in FieldsInputs, loan \in InitialDb.loan,
          member \in {None} \cup {Some(row) : row \in InitialDb.member},
          item \in {None} \cup {Some(row) : row \in InitialDb.item} :
         LET params == deserialize(RawParams(None, None, None, None, extras)).value
             attributes == LoanResponse(loan, member, item)
         IN  call' = [fn |-> "resource_with_fields", params |-> params,
                      resource_type |-> Str_loans, id |-> to_string(loan.loan_id),
                      attributes |-> attributes,
                      result |-> resource_with_fields(Str_loans, to_string(loan.loan_id),
                                     attributes, fieldset(params, Str_loans))]
    /\ CallIdle

(***************************************************************************)
(* C16: resource_with_fields returns an object of type, id and attributes; *)
(* when a fieldset is requested for the resource type the attribute keys   *)
(* are exactly the serialized keys that are in the requested set, with     *)
(* their values, and when none is requested every serialized attribute is  *)
(* kept.                                                                   *)
(***************************************************************************)
FieldsetKeepsRequestedKeys ==
    call.fn = "resource_with_fields" =>
      /\ DOMAIN call.result = {"type", "id", "attributes"}
      /\ call.result.type = call.resource_type
      /\ call.result.id = call.id
      /\ \A key \in DOMAIN call.attributes \cup DOMAIN call.result.attributes :
           /\ key \in DOMAIN call.result.attributes <=>
                /\ key \in DOMAIN call.attributes
                /\ \/ call.resource_type \notin DOMAIN call.params.fields
                   \/ key \in call.params.fields[call.resource_type]
           /\ key \in DOMAIN call.result.attributes =>
                call.result.attributes[key] = call.attributes[key]

\* fields[loans]=loan_id,item left two of the ten keys of an enriched loan
FieldsetApplied ==
    /\ call.fn = "resource_with_fields"
    /\ Str_loans \in DOMAIN call.params.fields
    /\ call.params.fields[Str_loans] = {Str_loan_id, Str_item}
    /\ {Str_member, Str_item} \subseteq DOMAIN call.attributes
    /\ DOMAIN call.result.attributes = {Str_loan_id, Str_item}

(***************************************************************************)
(* Calls of the sort compiler and of where_clause                          *)
(***************************************************************************)
SortLists ==
    { << LOAN_SORTS, LoanDefaultSort >>,
      << ITEM_SORTS, <<"item.item_id", "DESC">> >>,
      << MEMBER_SORTS, <<"member.register_date", "DESC">> >> }

SortRawInputs ==
    CallSortInputs \cup
    { Some(<<>>),
      Some(<<"+","l","o","a","n","_","i","d">>),
      Some(<<"-","l","o","a","n","_","d","a","t","e",","," ","d","u","e","_","d","a","t","e",",","-","l","o","a","n","_","i","d">>),
      Some(<<"m","e","m","b","e","r","_","i","d",",","-","m","e","m","b","e","r","_","n","a","m","e">>),
      Some(<<"-","i","t","e","m","_","i","d",",","i","t","e","m","_","c","o","d","e",",",",">>) }

CallSortClause ==
    /\ call = NoCall
    /\ \E pair \in SortLists, raw \in SortRawInputs :
         LET params == deserialize(RawParams(None, None, None, raw, NoExtras)).value
         IN  call' = [fn |-> "sort_clause", raw |-> raw, params |-> params,
                      allowed |-> pair[1], default |-> pair[2],
                      result |-> sort_clause(params, pair[1], pair[2])]
    /\ CallIdle

ThreeFilters ==
    (FilterKey(Str_item_code) :> I1) @@ (FilterKey(Str_member_id) :> M1)
        @@ (FilterKey(Str_is_return) :> <<"0">>)

\* the clause lists are the ones filter_clauses compiles
CallWhereClause ==
    /\ call = NoCall
    /\ \E allowed \in {LOAN_FILTERS, ITEM_FILTERS, MEMBER_FILTERS},
          extras \in CallFilterInputs \cup {ThreeFilters} :
         LET params == deserialize(RawParams(None, None, None, None, extras)).value
         IN  \E iteration \in Orders(DOMAIN params.filters) :
               LET filters == filter_clauses(params, allowed, iteration)
               IN  /\ filters.ok
                   /\ call' = [fn |-> "where_clause", filters |-> filters.value,
                               result |-> where_clause(filters.value)]
    /\ CallIdle

(***************************************************************************)
(* C17: sort_clause returns the default verbatim when no sort segment was  *)
(* parsed; otherwise, when every requested field is allowed, it returns    *)
(* the column of the allow-list entry of that name followed by ASC or      *)
(* DESC for each requested field, separated by commas, in the order the    *)
(* fields were requested.                                                  *)
(***************************************************************************)
SortClauseInOrder ==
    call.fn = "sort_clause" =>
      LET sorts == call.params.sorts
          allowed == call.allowed
          n == Len(sorts)
      IN  /\ n = 0 => call.result = Ok(call.default)
          /\ ( ~call.raw.is_some
               \/ \A i \in 1..Len(call.raw.value) : call.raw.value[i] \in {",", " "} )
               => call.result = Ok(call.default)
          /\ ( /\ n > 0
               /\ \A i \in 1..n : \E j \in 1..Len(allowed) : allowed[j].name = sorts[i].field )
               => /\ call.result.ok
                  /\ Len(call.result.value) = 3 * n - 1
                  /\ \A i \in 1..n :
                       /\ \E j \in 1..Len(allowed) :
                            /\ allowed[j].name = sorts[i].field
                            /\ call.result.value[3 * i - 2] = allowed[j].column
                       /\ call.result.value[3 * i - 1] =
                            (IF sorts[i].ascending THEN "ASC" ELSE "DESC")
                       /\ i < n => call.result.value[3 * i] = ","

\* sort=-loan_date, due_date,-loan_id was compiled for the loans
MultiKeySortCompiled ==
    /\ call.fn = "sort_clause"
    /\ call.raw = Some(<<"-","l","o","a","n","_","d","a","t","e",","," ","d","u","e","_","d","a","t","e",",","-","l","o","a","n","_","i","d">>)
    /\ call.result = Ok(<< "loan.loan_date", "DESC", ",", "loan.due_date", "ASC", ",",
                           "loan.loan_id", "DESC" >>)

(***************************************************************************)
(* C18: where_clause returns the empty text, without the WHERE keyword,    *)
(* for an empty clause list, and otherwise WHERE followed by the clause    *)
(* statements in clause order with AND between them and nothing else:      *)
(* filters are never combined with OR.                                     *)
(***************************************************************************)
WhereClauseAndJoined ==
    call.fn = "where_clause" =>
      LET n == Len(call.filters)
      IN  IF n = 0 THEN call.result = <<>>
          ELSE /\ Len(call.result) = 4 * n
               /\ call.result[1] = "WHERE"
               /\ \A i \in 1..n :
                    /\ SubSeq(call.result, 4 * i - 2, 4 * i) = call.filters[i].statement
                    /\ i < n => call.result[4 * i + 1] = "AND"
               /\ \A k \in 1..Len(call.result) : call.result[k] # "OR"

\* three clauses were joined
ThreeClausesJoined ==
    /\ call.fn = "where_clause"
    /\ Len(call.filters) = 3
    /\ call.filters[1].statement = <<"loan.is_return", "=", "?">>
    /\ call.result = << "WHERE", "loan.is_return", "=", "?", "AND",
                        "loan.member_id", "=", "?", "AND", "loan.item_code", "=", "?" >>

(***************************************************************************)
(* C19: when an inclusion lookup of a list request fails with a database   *)
(* error the whole request fails with that error: no statement is sent     *)
(* after it, no document with the rows enriched so far is produced, and    *)
(* the failure is not passed over.                                         *)
(***************************************************************************)
LookupFailureIsFatal ==
    \A t \in TaskIds :
      tasks[t].failed.is_some =>
        /\ tasks[t].pc = "done"
        /\ tasks[t].outcome = "error"
        /\ tasks[t].error.kind = "Database"
        /\ into_response(tasks[t].error).status = 500
        /\ tasks[t].document = NoDocument
        /\ tasks[t].queries # <<>>
        /\ tasks[t].queries[Len(tasks[t].queries)] = tasks[t].failed.value

\* an item lookup failed after an earlier loan had been enriched and pushed
LookupFailedAfterRows ==
    \E t \in TaskIds :
      /\ tasks[t].failed.is_some
      /\ tasks[t].failed.value.sql = ItemLookupSql
      /\ tasks[t].data # <<>>
      /\ tasks[t].outcome = "error"

(***************************************************************************)
(* C20: when a requested single-row lookup finds no related row, or the    *)
(* foreign key of the primary row is null, the relation of that row is     *)
(* None and the request still succeeds: a missing related row is never     *)
(* turned into an error.                                                   *)
(***************************************************************************)
AbsenceIsNotAnError ==
    \A t \in TaskIds :
      LET task == tasks[t]
      IN  /\ task.outcome = "error" =>
               /\ task.error.kind \in {"Forbidden", "BadRequest", "Database"}
               /\ task.error.kind = "Database" =>
                    /\ task.failed.is_some
                    /\ task.error.message # RowNotFound
          /\ task.outcome = "ok" =>
               /\ Len(task.document.data) = Len(task.loans)
               /\ \A i \in 1..Len(task.loans) :
                    LET loan == task.loans[i]
                        attributes == task.document.data[i].attributes
                    IN  /\ Str_member \in DOMAIN attributes <=>
                             /\ Str_member \in task.includes
                             /\ loan.member_id.is_some
                             /\ \E row \in db.member : row.member_id = loan.member_id.value
                        /\ Str_item \in DOMAIN attributes <=>
                             /\ Str_item \in task.includes
                             /\ loan.item_code.is_some
                             /\ \E row \in db.item : row.item_code = loan.item_code

\* a list with both relations requested was answered although one loan has
\* no member and its item does not exist
MissingRelationsAnswered ==
    \E t \in TaskIds :
      /\ tasks[t].outcome = "ok"
      /\ {Str_member, Str_item} \subseteq tasks[t].includes
      /\ \E i \in 1..Len(tasks[t].loans) :
           /\ ~tasks[t].loans[i].member_id.is_some
           /\ tasks[t].loans[i].item_code.is_some
           /\ Str_member \notin DOMAIN tasks[t].document.data[i].attributes
           /\ Str_item \notin DOMAIN tasks[t].document.data[i].attributes

(***************************************************************************)
(* biblios: the relations of a biblio, in the list enrichment and in the   *)
(* single-record handler.  Modelled are gmd (cached), content_type (cached,*)
(* looked up for positive ids only in the enrichment), authors, topics and *)
(* attachments; publisher and language are built like gmd, media_type,     *)
(* carrier_type, frequency and place like content_type, items and          *)
(* relations like authors.                                                 *)
(***************************************************************************)
Str_gmd == <<"g","m","d">>
Str_content_type == <<"c","o","n","t","e","n","t","_","t","y","p","e">>
Str_authors == <<"a","u","t","h","o","r","s">>
Str_topics == <<"t","o","p","i","c","s">>
Str_attachments == <<"a","t","t","a","c","h","m","e","n","t","s">>
Str_files == <<"f","i","l","e","s">>

Biblio(biblio_id, gmd_id, content_type_id) ==
    [biblio_id |-> biblio_id, gmd_id |-> gmd_id, content_type_id |-> content_type_id]

GmdLookupSql ==
    <<"SELECT", "gmd_id", ",", "gmd_name", "FROM", "mst_gmd", "WHERE", "gmd_id", "=", "?">>

ContentTypeLookupSql ==
    <<"SELECT", "id", ",", "content_type", ",", "code", "FROM", "mst_content_type",
      "WHERE", "id", "=", "?">>

AuthorsSql ==
    <<"SELECT", "a.author_id", ",", "a.author_name", ",", "a.authority_type",
      "FROM", "biblio_author", "ba", "JOIN", "mst_author", "a",
      "ON", "ba.author_id", "=", "a.author_id", "WHERE", "ba.biblio_id", "=", "?">>

TopicsSql ==
    <<"SELECT", "t.topic_id", ",", "t.topic", ",", "t.topic_type",
      "FROM", "biblio_topic", "bt", "JOIN", "mst_topic", "t",
      "ON", "bt.topic_id", "=", "t.topic_id", "WHERE", "bt.biblio_id", "=", "?">>

AttachmentsSql ==
    <<"SELECT", "f.file_id", ",", "f.file_title", ",", "ba.placement",
      "FROM", "biblio_attachment", "ba", "JOIN", "files", "f",
      "ON", "f.file_id", "=", "ba.file_id", "WHERE", "ba.biblio_id", "=", "?",
      "ORDER BY", "ba.file_id", "DESC">>

BiblioByIdSql ==
    <<"SELECT", "biblio_id", ",", "gmd_id", ",", "content_type_id",
      "FROM", "biblio", "WHERE", "biblio_id", "=", "?">>

\* the catalogue: biblio 2 has the content type 0 and biblio 3 the content
\* type -1, the content type 0 has a row, the gmd 9 of biblio 4 has none
Library ==
    [biblio |-> { Biblio(1, Some(1), Some(1)), Biblio(2, Some(1), Some(0)),
                  Biblio(3, None, Some(-1)), Biblio(4, Some(9), None) },
     mst_gmd |-> { [gmd_id |-> 1, gmd_name |-> <<"T","e","x","t">>] },
     mst_content_type |-> { [id |-> 1, content_type |-> <<"t","e","x","t">>, code |-> <<"t","x","t">>],
                            [id |-> 0, content_type |-> <<"n","o","n","e">>, code |-> <<"x">>] },
     mst_author |-> { [author_id |-> 5, author_name |-> <<"A","n","n">>],
                      [author_id |-> 6, author_name |-> <<"B","o","b">>] },
     biblio_author |-> { [biblio_id |-> 1, author_id |-> 5], [biblio_id |-> 2, author_id |-> 5],
                         [biblio_id |-> 2, author_id |-> 6] },
     mst_topic |-> { [topic_id |-> 7, topic |-> <<"A","r","t">>] },
     biblio_topic |-> { [biblio_id |-> 1, topic_id |-> 7], [biblio_id |-> 3, topic_id |-> 7] },
     files |-> { [file_id |-> 20, file_title |-> <<"a">>], [file_id |-> 21, file_title |-> <<"b">>] },
     biblio_attachment |-> { [biblio_id |-> 1, file_id |-> 20, placement |-> <<"l">>],
                             [biblio_id |-> 1, file_id |-> 21, placement |-> <<"l">>] }]

\* the rows a statement SELECT ... WHERE column = ? matches
RowsWhere(rows, column, value) == {row \in rows : row[column] = value}

\* fetch_optional of a lookup by key: the row, or none
RowById(rows, column, id) ==
    IF RowsWhere(rows, column, id) = {} THEN None
    ELSE Some(CHOOSE row \in RowsWhere(rows, column, id) : TRUE)

\* ... FROM link JOIN master ON link.key = master.key WHERE link.biblio_id = ?
Joined(links, masters, key, biblio_id) ==
    {[k \in DOMAIN link \cup DOMAIN master |->
        IF k \in DOMAIN master THEN master[k] ELSE link[k]] :
       <<link, master>> \in {pair \in RowsWhere(links, "biblio_id", biblio_id) \X masters :
                               pair[1][key] = pair[2][key]}}

\* ORDER BY column DESC over rows that differ in that column
RECURSIVE Descending(_, _)
Descending(rows, column) ==
    IF rows = {} THEN <<>>
    ELSE LET first == CHOOSE row \in rows : \A other \in rows : other[column] <= row[column]
         IN  <<first>> \o Descending(rows \ {first}, column)

\* an enrichment in which topics are fetched only along with authors
WantedTopicsWithAuthors(names, relation) ==
    IF relation = Str_attachments
    THEN Str_attachments \in names \/ Str_files \in names
    ELSE IF relation = Str_topics
    THEN Str_topics \in names /\ Str_authors \in names
    ELSE relation \in names

\* includes.contains(name) for the relation; attachments answers to two names
Wanted(names, relation) ==
    IF relation = Str_attachments
    THEN Str_attachments \in names \/ Str_files \in names
    ELSE relation \in names

\* what the block of one relation leaves: its value, its cache, the
\* statements it sent and whether the last of them failed
Fetched(failed, value, cache, queries) ==
    [failed |-> failed, value |-> value, cache |-> cache, queries |-> queries]

\* the block of a single-row relation without a cache:
\* if includes.contains(..) { if let Some(id) = key { fetch_optional } }
Lookup(asked, key, sql, rows, column, broken) ==
    LET query == Bind(Query(sql), Integer(key.value))
    IN  IF ~asked \/ ~key.is_some THEN Fetched(FALSE, None, EmptyMap, <<>>)
        ELSE IF query \in broken THEN Fetched(TRUE, None, EmptyMap, <<query>>)
        ELSE Fetched(FALSE, RowById(rows, column, key.value), EmptyMap, <<query>>)

\* the block of a cached single-row relation: a hit in the cache, or a
\* lookup whose row, when there is one, is put into the cache
CachedLookup(asked, key, cache, sql, rows, column, broken) ==
    LET query == Bind(Query(sql), Integer(key.value))
        row == RowById(rows, column, key.value)
    IN  IF ~asked \/ ~key.is_some THEN Fetched(FALSE, None, cache, <<>>)
        ELSE IF key.value \in DOMAIN cache
        THEN Fetched(FALSE, Some(cache[key.value]), cache, <<>>)
        ELSE IF query \in broken THEN Fetched(TRUE, None, cache, <<query>>)
        ELSE Fetched(FALSE, row,
                     IF row.is_some THEN Insert(cache, key.value, row.value) ELSE cache,
                     <<query>>)

\* if ct_id > 0 { .. }: a key that is not positive is treated like no key
IfPositive(key) == IF key.is_some /\ key.value > 0 THEN key ELSE None

\* the block of a many-rows relation: if includes.contains(..) { fetch_all }
\* The rows of a statement without ORDER BY are kept as a set.
FetchRelated(asked, biblio_id, sql, rows, broken) ==
    LET query == Bind(Query(sql), Integer(biblio_id))
    IN  IF ~asked THEN Fetched(FALSE, None, EmptyMap, <<>>)
        ELSE IF query \in broken THEN Fetched(TRUE, None, EmptyMap, <<query>>)
        ELSE Fetched(FALSE, Some(rows), EmptyMap, <<query>>)

\* the relations in the order of the struct
Relations == <<Str_gmd, Str_content_type, Str_authors, Str_topics, Str_attachments>>

\* the statements sent by a sequence of blocks, up to the first that failed
RECURSIVE Sent(_)
Sent(blocks) ==
    IF blocks = <<>> THEN <<>>
    ELSE IF Head(blocks).failed THEN Head(blocks).queries
    ELSE Head(blocks).queries \o Sent(Tail(blocks))

AnyFailed(blocks) == \E i \in 1..Len(blocks) : blocks[i].failed

BiblioResponse(biblio, blocks) ==
    [biblio |-> biblio, gmd |-> blocks[1].value, content_type |-> blocks[2].value,
     authors |-> blocks[3].value, topics |-> blocks[4].value,
     attachments |-> blocks[5].value]

\* the blocks of the many-rows relations, the same in both handlers
RelatedBlocks(biblio_id, names, database, broken) ==
    << FetchRelated(Wanted(names, Str_authors), biblio_id, AuthorsSql,
                    Joined(database.biblio_author, database.mst_author, "author_id", biblio_id),
                    broken),
       FetchRelated(Wanted(names, Str_topics), biblio_id, TopicsSql,
                    Joined(database.biblio_topic, database.mst_topic, "topic_id", biblio_id),
                    broken),
       FetchRelated(Wanted(names, Str_attachments), biblio_id, AttachmentsSql,
                    Descending(Joined(database.biblio_attachment, database.files,
                                      "file_id", biblio_id), "file_id"),
                    broken) >>

\* the body of the loop of enrich_biblios for one biblio
EnrichBlocks(biblio, names, database, caches, broken) ==
    << CachedLookup(Wanted(names, Str_gmd), biblio.gmd_id, caches.gmd,
                    GmdLookupSql, database.mst_gmd, "gmd_id", broken),
       CachedLookup(Wanted(names, Str_content_type), IfPositive(biblio.content_type_id),
                    caches.content_type, ContentTypeLookupSql,
                    database.mst_content_type, "id", broken) >>
    \o RelatedBlocks(biblio.biblio_id, names, database, broken)

\* let mut gmd_cache = HashMap::new(); ... : the caches of one call
FreshCaches == [gmd |-> EmptyMap, content_type |-> EmptyMap]

RECURSIVE EnrichLoop(_, _, _, _, _, _, _)
EnrichLoop(rows, names, database, caches, data, queries, broken) ==
    IF rows = <<>> THEN [ok |-> TRUE, error |-> NoError, data |-> data, queries |-> queries]
    ELSE LET blocks == EnrichBlocks(Head(rows), names, database, caches, broken)
         IN  IF AnyFailed(blocks)
             THEN [ok |-> FALSE, error |-> Database(PoolTimedOut), data |-> <<>>,
                   queries |-> queries \o Sent(blocks)]
             ELSE EnrichLoop(Tail(rows), names, database,
                             [gmd |-> blocks[1].cache, content_type |-> blocks[2].cache],
                             Append(data, BiblioResponse(Head(rows), blocks)),
                             queries \o Sent(blocks), broken)

\* enrich_biblios; broken are the statements the driver fails on
enrich_biblios(names, rows, database, broken) ==
    EnrichLoop(rows, names, database, FreshCaches, <<>>, <<>>, broken)

\* the calls of enrich_biblios: every include set over the modelled names,
\* batches with repeated keys, and a driver that fails on one statement
IncludeSets ==
    SUBSET {Str_gmd, Str_content_type, Str_authors, Str_topics, Str_attachments, Str_files}

BiblioRow(biblio_id) == CHOOSE row \in Library.biblio : row.biblio_id = biblio_id

Batches ==
    { <<>>, <<BiblioRow(2)>>, <<BiblioRow(2), BiblioRow(1)>>,
      <<BiblioRow(4), BiblioRow(3), BiblioRow(2), BiblioRow(1)>> }

BrokenInputs ==
    { {}, {Bind(Query(GmdLookupSql), Integer(1))}, {Bind(Query(TopicsSql), Integer(1))} }

CallEnrichBiblios ==
    /\ call = NoCall
    /\ \E names \in IncludeSets, rows \in Batches, broken \in BrokenInputs :
         call' = [fn |-> "enrich_biblios", includes |-> names, rows |-> rows,
                  broken |-> broken,
                  result |-> enrich_biblios(names, rows, Library, broken)]
    /\ CallIdle

\* the names a relation is requested by, and whether one of them was given
NamesOf(relation) ==
    IF relation = Str_attachments THEN {Str_attachments, Str_files} ELSE {relation}

Requested(names, relation) == NamesOf(relation) \cap names # {}

RelationSql(relation) ==
    CASE relation = Str_gmd -> GmdLookupSql
      [] relation = Str_content_type -> ContentTypeLookupSql
      [] relation = Str_authors -> AuthorsSql
      [] relation = Str_topics -> TopicsSql
      [] relation = Str_attachments -> AttachmentsSql

\* the statements of a relation in the order they were sent
QueriesOf(queries, relation) ==
    SelectSeq(queries, LAMBDA query : query.sql = RelationSql(relation))

\* the value a response carries for a relation
ValueOf(response, relation) ==
    CASE relation = Str_gmd -> response.gmd
      [] relation = Str_content_type -> response.content_type
      [] relation = Str_authors -> response.authors
      [] relation = Str_topics -> response.topics
      [] relation = Str_attachments -> response.attachments

(***************************************************************************)
(* C21: relations are independent.  For a fixed batch of rows the          *)
(* statements sent for a relation and the value each row receives for it   *)
(* depend only on whether the relation's own name is in the include set:   *)
(* every other include set that agrees on that name gives the same         *)
(* statements and the same values, and a relation that was not requested   *)
(* sends no statement and stays None.                                      *)
(***************************************************************************)
RelationsIndependent ==
    (call.fn = "enrich_biblios" /\ call.result.ok) =>
      \A i \in 1..Len(Relations) :
        LET relation == Relations[i]
        IN  /\ ~Requested(call.includes, relation) =>
                 /\ QueriesOf(call.result.queries, relation) = <<>>
                 /\ \A j \in 1..Len(call.result.data) :
                      ValueOf(call.result.data[j], relation) = None
            /\ \A other \in IncludeSets :
                 LET again == enrich_biblios(other, call.rows, Library, call.broken)
                 IN  (/\ again.ok
                      /\ Requested(other, relation) <=> Requested(call.includes, relation))
                     => /\ QueriesOf(again.queries, relation)
                             = QueriesOf(call.result.queries, relation)
                        /\ \A j \in 1..Len(call.rows) :
                             ValueOf(again.data[j], relation)
                               = ValueOf(call.result.data[j], relation)

\* a batch of several biblios was enriched with authors and without topics
AuthorsWithoutTopics ==
    /\ call.fn = "enrich_biblios"
    /\ call.result.ok
    /\ Len(call.rows) > 1
    /\ Str_authors \in call.includes
    /\ Str_topics \notin call.includes
    /\ Len(QueriesOf(call.result.queries, Str_authors)) = Len(call.rows)
    /\ QueriesOf(call.result.queries, Str_topics) = <<>>
    /\ \E j \in 1..Len(call.rows) : call.result.data[j].authors # Some({})

(***************************************************************************)
(* Two list requests at a time: each has its own locals, the caches among  *)
(* them, and their steps interleave in any order.                          *)
(***************************************************************************)
PairIds == {1, 2}

\* the requests of the two clients: every include, on the first page
PairRequests ==
    {Request(ReadOnly, RawParams(None, None, inc, None, NoExtras)) : inc \in IncludeInputs}

InitPair ==
    /\ db = InitialDb
    /\ writes = 0
    /\ tasks = [t \in PairIds |-> IdleTask]
    /\ writer = IdleWriter
    /\ HarnessIdle

NextPair ==
    \/ \E t \in PairIds : ListLoansStartOf(t, PairRequests)
    \/ \E t \in PairIds : ListLoansData(t)
    \/ \E t \in PairIds : ListLoansMember(t)
    \/ \E t \in PairIds : ListLoansItem(t)
    \/ \E t \in PairIds : ListLoansEnd(t)

SpecPair == InitPair /\ [][NextPair]_vars

\* the value a lookup of this request brought for the key: the request sent
\* the statement and the row is the one the statement finds
FetchedByRequest(task, sql, key, value, kept) ==
    /\ Lookups(task, sql, key) # {}
    /\ \E row \in FetchOptional(db, Bind(Query(sql), Text(key))) :
         row.is_some /\ kept[row.value] = value

(***************************************************************************)
(* C22: each list request starts with its relation caches empty and no     *)
(* cache is shared between requests: under every interleaving of two list  *)
(* requests, every entry of a request's cache and every member or item it  *)
(* attaches was fetched by a statement of that same request.               *)
(***************************************************************************)
CachesArePerRequest ==
    \A t \in PairIds :
      LET task == tasks[t]
          member == [row \in db.member |-> LoanMember(row)]
          item == [row \in db.item |-> LoanItem(row)]
      IN  /\ task.pc \in {"idle", "data"} =>
               task.member_cache = EmptyMap /\ task.item_cache = EmptyMap
          /\ \A key \in DOMAIN task.member_cache :
               FetchedByRequest(task, MemberLookupSql, key, task.member_cache[key], member)
          /\ \A key \in DOMAIN task.item_cache :
               FetchedByRequest(task, ItemLookupSql, key, task.item_cache[key], item)
          /\ (task.pc = "item" /\ task.member.is_some) =>
               FetchedByRequest(task, MemberLookupSql,
                                task.loans[task.index].member_id.value,
                                task.member.value, member)
          /\ task.outcome = "ok" =>
               \A i \in 1..Len(task.loans) :
                 /\ Attached(task, i, Str_member).is_some =>
                      FetchedByRequest(task, MemberLookupSql, task.loans[i].member_id.value,
                                       Attached(task, i, Str_member).value, member)
                 /\ Attached(task, i, Str_item).is_some =>
                      FetchedByRequest(task, ItemLookupSql, task.loans[i].item_code.value,
                                       Attached(task, i, Str_item).value, item)

\* a request takes a member from its cache while the other request, in
\* flight, holds a cache of its own
CacheHitBesideAnotherRequest ==
    \E t \in PairIds, u \in PairIds :
      /\ t # u
      /\ tasks[t].pc = "item"
      /\ tasks[t].index > 1
      /\ tasks[t].member.is_some
      /\ tasks[t].loans[tasks[t].index].member_id = tasks[t].loans[tasks[t].index - 1].member_id
      /\ Cardinality(Lookups(tasks[t], MemberLookupSql,
                             tasks[t].loans[tasks[t].index].member_id.value)) = 1
      /\ tasks[u].pc \in {"member", "item"}
      /\ tasks[u].member_cache # EmptyMap

(***************************************************************************)
(* list_biblios, list_visitors: the lists that compile no sort and no      *)
(* filter                                                                  *)
(***************************************************************************)
\* require_access, limit_offset and the count statement: params.sort_clause
\* and params.filter_clauses are not called
ListPlainCount(request, module, table, checks) ==
    LET parsed == deserialize(request.query)
    IN  IF ~parsed.ok THEN Stopped("rejected", parsed.error)
        ELSE
        LET access == require_access(request.access, module, "Read")
            paging == limit_offset(parsed.value.pagination, checks)
        IN  IF ~access.ok THEN Stopped("error", access.error)
            ELSE IF paging.panic THEN Stopped("panic", NoError)
            ELSE Counting(Query(<<"SELECT", "COUNT(*)", "FROM", table>>))

list_biblios(request, checks) == ListPlainCount(request, Bibliography, "biblio", checks)

list_visitors(request, checks) ==
    ListPlainCount(request, Membership, "visitor_count", checks)

CallListBiblios ==
    /\ call = NoCall
    /\ \E request \in CallRequests :
         \E checks \in Builds(request) :
           call' = Called("list_biblios", request, list_biblios(request, checks))
    /\ CallIdle

CallListVisitors ==
    /\ call = NoCall
    /\ \E request \in CallRequests :
         \E checks \in Builds(request) :
           call' = Called("list_visitors", request, list_visitors(request, checks))
    /\ CallIdle

\* the lists that declare no filter at all
PlainListHandlers == {"list_biblios", "list_visitors"}

(***************************************************************************)
(* C23: on every list endpoint that takes ListParams a filter[name]        *)
(* parameter that the resource does not allow is rejected with BadRequest; *)
(* it is never silently ignored.  For /biblios and /visitors, which allow  *)
(* no filter, every request that carries a filter and passes the access    *)
(* check ends in BadRequest.                                               *)
(***************************************************************************)
FilterNeverIgnored ==
    (/\ call.fn \in PlainListHandlers
     /\ Deserializes(call.request)
     /\ call.result.outcome # "error" \/ call.result.error.kind # "Forbidden"
     /\ DOMAIN ParamsOf(call.request).filters # {})
    => /\ call.result.outcome = "error"
       /\ call.result.error.kind = "BadRequest"

(***************************************************************************)
(* C24: filter_clauses visits the filters in an order fixed by             *)
(* declaration, not by the iteration order of the filters map: the same    *)
(* filter names and values always give the same clause sequence, whatever  *)
(* order the map is iterated in.                                           *)
(***************************************************************************)
ClauseOrderFixed ==
    (call.fn = "filter_clauses" /\ call.result.ok) =>
      \A iteration \in Orders(DOMAIN call.params.filters) :
        filter_clauses(call.params, call.allowed, iteration) = call.result

(***************************************************************************)
(* C25: the count statement and the data statement of a list request are   *)
(* two steps with no transaction around them.  The total is the count of   *)
(* the rows that matched when the count ran, the page is read from the     *)
(* table as it is when the data statement runs, the data step keeps the    *)
(* total and fails only when its statement fails, and the response carries *)
(* that total: a write between the two steps changes the page, not the     *)
(* total, and does not fail the request.                                   *)
(***************************************************************************)
CountAndDataAreSeparate ==
    [][\A t \in TaskIds :
         /\ (tasks[t].pc = "idle" /\ tasks'[t].pc = "data") =>
              tasks'[t].total = FetchCount(db, tasks'[t].queries[1])
         /\ (tasks[t].pc = "data" /\ tasks'[t] # tasks[t]) =>
              /\ tasks'[t].total = tasks[t].total
              /\ \/ tasks'[t].failed = Some(DataQuery(tasks[t]))
                 \/ /\ tasks'[t].outcome # "error"
                    /\ tasks'[t].loans \in FetchAll(db, DataQuery(tasks[t]))
         /\ tasks'[t].outcome = "ok" =>
              tasks'[t].document.meta.total = tasks'[t].total]_vars

\* a successful first page that is not full and holds more or fewer rows
\* than the total it reports
TotalDiffersFromRows ==
    \E t \in TaskIds :
      /\ tasks[t].outcome = "ok"
      /\ tasks[t].offset = 0
      /\ Len(tasks[t].loans) < tasks[t].limit
      /\ tasks[t].document.meta.total # Len(tasks[t].loans)
      /\ Len(tasks[t].document.data) = Len(tasks[t].loans)
      /\ writes > tasks[t].seen

(***************************************************************************)
(* ListParams::deserialize called on its own                               *)
(***************************************************************************)
\* filter values with no segment, with empty segments and with blanks
FilterValueInputs ==
    { <<>>, <<",">>, <<" ">>, <<" ", ",", " ", ",">>, <<",", "a">>, <<"a", ",", ",", "b">>,
      <<" ", "a", " ">>, <<"a", ",", " ">> }

\* keys of the extras: filters, a fieldset, a filter without a name, a key
\* that does not close its bracket and a key that is no filter
ExtraKeyInputs ==
    { FilterKey(Str_n), FilterKey(Str_item_code), FilterKey(<<>>), FieldsKey(Str_loans),
      FilterPrefix \o Str_n, Str_n }

ExtrasInputs ==
    {k :> v : k \in ExtraKeyInputs, v \in FilterValueInputs}
    \cup {(FilterKey(Str_n) :> v) @@ (FilterKey(Str_item_code) :> w) :
            v \in FilterValueInputs, w \in {<<>>, <<"a", ",", ",", "b">>}}

CallDeserialize ==
    /\ call = NoCall
    /\ \E extras \in ExtrasInputs, page \in {None, Some(2), Some(-1)} :
         call' = [fn |-> "deserialize",
                  raw |-> RawParams(page, None, None, None, extras),
                  result |-> deserialize(RawParams(page, None, None, None, extras))]
    /\ CallIdle

\* the value has no segment that is not empty after trimming
NoSegment(value) == \A i \in 1..Len(value) : value[i] = "," \/ IsWhitespace(value[i])

\* the filters maps of the call: the one deserialize built, or the one
\* filter_clauses was called on
FiltersOf(c) ==
    IF c.fn = "deserialize" THEN c.result.value.filters ELSE c.params.filters

(***************************************************************************)
(* C26: after parsing any query string every entry of the filters map      *)
(* holds at least one value and every value is non-empty and trimmed; a    *)
(* filter[...] key whose value has no non-empty segment is dropped, and    *)
(* one with such a segment is kept.  The first value that filter_clauses   *)
(* takes with expect("checked non-empty") is therefore always there.       *)
(***************************************************************************)
FiltersNeverEmpty ==
    ((call.fn = "deserialize" /\ call.result.ok) \/ call.fn = "filter_clauses") =>
      /\ \A name \in DOMAIN FiltersOf(call) :
           /\ Len(FiltersOf(call)[name]) >= 1
           /\ \A i \in 1..Len(FiltersOf(call)[name]) :
                /\ FiltersOf(call)[name][i] # <<>>
                /\ Trim(FiltersOf(call)[name][i]) = FiltersOf(call)[name][i]
      /\ call.fn = "deserialize" =>
           \A key \in DOMAIN call.raw.extras :
             BracketName(key, FilterPrefix).is_some =>
               (BracketName(key, FilterPrefix).value \in DOMAIN FiltersOf(call)
                  <=> ~NoSegment(call.raw.extras[key]))

\* filter[n] with blanks and commas only was dropped while filter[item_code]
\* of the same query kept its two values
EmptyFilterDropped ==
    /\ call.fn = "deserialize"
    /\ call.result.ok
    /\ FilterKey(Str_n) \in DOMAIN call.raw.extras
    /\ call.raw.extras[FilterKey(Str_n)] = <<" ", ",", " ", ",">>
    /\ DOMAIN call.result.value.filters = {Str_item_code}
    /\ call.result.value.filters[Str_item_code] = << <<"a">>, <<"b">> >>

(***************************************************************************)
(* Pagination::limit_offset called on its own                              *)
(***************************************************************************)
\* page numbers whose offsets, exact or wrapped, stay below 2^31
PageNumberInputs == {None} \cup {Some(n) : n \in {0, 1, 2, 3, 21474837, 42949674}}
PageSizeInputs == {None} \cup {Some(n) : n \in {0, 1, 7, 100, 101, 42949674}}

CallLimitOffset ==
    /\ call = NoCall
    /\ \E page_number \in PageNumberInputs, page_size \in PageSizeInputs, checks \in BOOLEAN :
         LET pagination == [page_number |-> page_number, page_size |-> page_size]
         IN  call' = [fn |-> "limit_offset", pagination |-> pagination, checks |-> checks,
                      result |-> limit_offset(pagination, checks)]
    /\ CallIdle

(***************************************************************************)
(* C27: for every page number that fits an unsigned 32-bit value and every *)
(* page size, limit_offset returns limit = the resolved per_page and       *)
(* offset = (resolved page - 1) x per_page exactly: the call does not      *)
(* panic and the offset is the multiple of per_page whose quotient is      *)
(* page - 1, not a wrapped value.                                          *)
(***************************************************************************)
OffsetIsExact ==
    call.fn = "limit_offset" =>
      LET page == resolved(call.pagination)[1]
          per_page == resolved(call.pagination)[2]
      IN  /\ ~call.result.panic
          /\ call.result.limit = per_page
          /\ call.result.offset >= 0
          /\ call.result.offset % per_page = 0
          /\ call.result.offset \div per_page = page - 1

(***************************************************************************)
(* get_biblio                                                              *)
(***************************************************************************)
\* the relation blocks of get_biblio: the single-row relations are looked
\* up whenever the key is not null, without a cache
GetBlocks(biblio, names, database, broken) ==
    << Lookup(Wanted(names, Str_gmd), biblio.gmd_id,
              GmdLookupSql, database.mst_gmd, "gmd_id", broken),
       Lookup(Wanted(names, Str_content_type), biblio.content_type_id,
              ContentTypeLookupSql, database.mst_content_type, "id", broken) >>
    \o RelatedBlocks(biblio.biblio_id, names, database, broken)

Answered(outcome, error, queries, response) ==
    [outcome |-> outcome, error |-> error, queries |-> queries, response |-> response]

\* get_biblio: the Query extractor, require_access, fetch_one of the biblio,
\* then the relations
get_biblio(request, biblio_id, database, broken) ==
    LET parsed == deserialize(request.query)
        access == require_access(request.access, Bibliography, "Read")
        select == Bind(Query(BiblioByIdSql), Integer(biblio_id))
        row == RowById(database.biblio, "biblio_id", biblio_id)
    IN  IF ~parsed.ok THEN Answered("rejected", parsed.error, <<>>, None)
        ELSE IF ~access.ok THEN Answered("error", access.error, <<>>, None)
        ELSE IF select \in broken
        THEN Answered("error", Database(PoolTimedOut), <<select>>, None)
        ELSE IF ~row.is_some
        THEN Answered("error", Database(RowNotFound), <<select>>, None)
        ELSE LET blocks == GetBlocks(row.value, includes(parsed.value), database, broken)
             IN  IF AnyFailed(blocks)
                 THEN Answered("error", Database(PoolTimedOut),
                               <<select>> \o Sent(blocks), None)
                 ELSE Answered("ok", NoError, <<select>> \o Sent(blocks),
                               Some(BiblioResponse(row.value, blocks)))

BiblioIncludeInputs ==
    { None,
      Some(Str_content_type),
      Some(Str_gmd \o <<",">> \o Str_content_type),
      Some(<<" ">> \o Str_authors \o <<",", " ">> \o Str_topics \o <<",">> \o Str_files),
      Some(<<"G", "M", "D", ",", ",">> \o Str_attachments) }

CallGetBiblio ==
    /\ call = NoCall
    /\ \E access \in {<<>>, AllRead}, inc \in BiblioIncludeInputs, page \in {None, Some(-1)},
          biblio_id \in {1, 2, 3, 4, 9},
          broken \in {{}, {Bind(Query(ContentTypeLookupSql), Integer(1))}} :
         LET request == Request(access, RawParams(page, None, inc, None, NoExtras))
         IN  call' = [fn |-> "get_biblio", request |-> request, biblio_id |-> biblio_id,
                      broken |-> broken,
                      result |-> get_biblio(request, biblio_id, Library, broken)]
    /\ CallIdle

(***************************************************************************)
(* C28: for the same biblio row, the same include set and an unchanged     *)
(* database, get_biblio attaches for every relation the value that         *)
(* enrich_biblios attaches to that row, also for content_type when the     *)
(* foreign key of the row is zero or negative.                             *)
(***************************************************************************)
GetBiblioAgreesWithList ==
    (call.fn = "get_biblio" /\ call.result.outcome = "ok") =>
      LET single == call.result.response.value
          listed == enrich_biblios(includes(ParamsOf(call.request)), <<single.biblio>>,
                                   Library, {})
      IN  /\ listed.ok
          /\ \A i \in 1..Len(Relations) :
               ValueOf(listed.data[1], Relations[i]) = ValueOf(single, Relations[i])

(***************************************************************************)
(* AuthUser::require_access called on its own                              *)
(***************************************************************************)
\* access lists as fetch_group_access builds them, one entry per module:
\* none, one entry for Circulation or Membership with every pair of flags,
\* and two entries in both orders
OneEntryLists ==
    {<< ModulePermission(module, read, write) >> :
       module \in {Circulation, Membership}, read \in BOOLEAN, write \in BOOLEAN}

AccessLists ==
    {<<>>} \cup OneEntryLists
    \cup {<< ModulePermission(Membership, TRUE, TRUE) >> \o list : list \in
            {l \in OneEntryLists : l[1].module_id = Circulation}}
    \cup {list \o << ModulePermission(Bibliography, TRUE, TRUE) >> : list \in
            {l \in OneEntryLists : l[1].module_id = Circulation}}

CallRequireAccess ==
    /\ call = NoCall
    /\ \E access \in AccessLists, module \in {Bibliography, Circulation, Membership},
          permission \in {"Read", "Write"} :
         call' = [fn |-> "require_access", access |-> access, module |-> module,
                  permission |-> permission,
                  result |-> require_access(access, module, permission)]
    /\ CallIdle

\* the entries of the list for the module
EntriesFor(access, module) ==
    {i \in 1..Len(access) : access[i].module_id = module}

(***************************************************************************)
(* C29: require_access(module, permission) succeeds only if the access     *)
(* list of the token has an entry for the module.  With an entry, Read is  *)
(* granted exactly when the entry has read or write set and Write exactly  *)
(* when it has write set, so a token that may write may read; without an   *)
(* entry the answer is Forbidden, and so is every refusal.                 *)
(***************************************************************************)
AccessByEntry ==
    call.fn = "require_access" =>
      LET entries == EntriesFor(call.access, call.module)
      IN  /\ call.result.ok => entries # {}
          /\ entries = {} => call.result = Err(Forbidden(<<"insufficient permissions">>))
          /\ ~call.result.ok => call.result.error.kind = "Forbidden"
          /\ \A i \in entries :
               /\ call.permission = "Read" =>
                    (call.result.ok <=> (call.access[i].read \/ call.access[i].write))
               /\ call.permission = "Write" => (call.result.ok <=> call.access[i].write)
          /\ require_access(call.access, call.module, "Write").ok
               => require_access(call.access, call.module, "Read").ok

\* a token whose Circulation entry has write set and read clear was let in
\* to read, with the entry of another module before it in the list
WriteFlagGrantsRead ==
    /\ call.fn = "require_access"
    /\ call.permission = "Read"
    /\ call.module = Circulation
    /\ Len(call.access) = 2
    /\ call.access[2] = ModulePermission(Circulation, FALSE, TRUE)
    /\ call.result.ok

(***************************************************************************)
(* Sequences of create_loan and return_loan calls, with no list request    *)
(***************************************************************************)
\* the number of writes of a sequence
MaxCalls == 3

\* the loans asked to be returned: the initial ones (3 is returned
\* already), the first one create_loan adds, and one that never exists
SequenceLoanIds == {1, 2, 3, 4, 7}

NextWrites ==
    \/ CreateLoanInsertWithin(MaxCalls)
    \/ ReturnLoanUpdateOf(MaxCalls, SequenceLoanIds)
    \/ WriterSelect

SpecWrites == Init /\ [][NextWrites]_vars

\* the row of the table with the id, as a set of none or one
LoanRows(database, loan_id) == {row \in database.loan : row.loan_id = loan_id}

(***************************************************************************)
(* C30: over any sequence of create_loan and return_loan calls the         *)
(* is_return of a loan only moves from 0 to 1.  No step removes a loan or  *)
(* lowers its is_return; a loan appears only by create_loan and with       *)
(* is_return = 0; is_return becomes 1 only by return_loan for that loan,   *)
(* together with a return date; and a return_loan whose loan_id matches no *)
(* row answers NotFound and leaves every row as it was.                    *)
(***************************************************************************)
IsReturnOnlyRises ==
    [][/\ \A row \in db.loan :
            \E next \in LoanRows(db', row.loan_id) :
              /\ LoanRows(db', row.loan_id) = {next}
              /\ next.is_return >= row.is_return
              /\ next.is_return # row.is_return =>
                   /\ next.is_return = 1
                   /\ next.return_date.is_some
                   /\ writer'.handler = "return_loan"
                   /\ writer'.loan_id = row.loan_id
              /\ writer'.loan_id # row.loan_id => next = row
       /\ \A next \in db'.loan :
            LoanRows(db, next.loan_id) = {} =>
              /\ next.is_return = 0
              /\ ~next.return_date.is_some
              /\ writer'.handler = "create_loan"
              /\ writer'.loan_id = next.loan_id
       /\ (/\ writer' # writer
           /\ writer.pc # "select"
           /\ writer'.handler = "return_loan"
           /\ writer'.error.kind # "Forbidden") =>
            /\ LoanRows(db, writer'.loan_id) = {} <=> writer'.error = NotFound
            /\ LoanRows(db, writer'.loan_id) = {} => db' = db
      ]_vars

\* the loan that create_loan added was returned, and a later return_loan
\* for a loan that does not exist was answered with NotFound
CreatedLoanReturned ==
    /\ writes = MaxCalls
    /\ \E row \in db.loan :
         /\ row.loan_id \notin {loan.loan_id : loan \in InitialDb.loan}
         /\ row.is_return = 1
         /\ row.return_date.is_some
    /\ writer.handler = "return_loan"
    /\ writer.error = NotFound
    /\ LoanRows(db, writer.loan_id) = {}

(***************************************************************************)
(* The call specification: one call at a time, in any order                *)
(***************************************************************************)
\* the call returns and the client is free to make the next one
CallReturn ==
    /\ call # NoCall
    /\ call' = NoCall
    /\ CallIdle

NextCalls ==
    \/ CallListLoans
    \/ CallListItems
    \/ CallListMembers
    \/ CallSimpleSearch
    \/ CallAdvancedSearch
    \/ CallFilterClauses
    \/ CallIntoResponse
    \/ CallResourceWithFields
    \/ CallSortClause
    \/ CallWhereClause
    \/ CallEnrichBiblios
    \/ CallListBiblios
    \/ CallListVisitors
    \/ CallDeserialize
    \/ CallLimitOffset
    \/ CallGetBiblio
    \/ CallRequireAccess
    \/ CallReturn

SpecCalls == Init /\ [][NextCalls]_vars

====
